---- MODULE Spec2Model ----
(***************************************************************************)
(* A model of the per-connection protocol engine of simplewebsockets:     *)
(* the frame codec (FrameToBytes / BytesToFrame), the frame-size pre-scan  *)
(* (frameSize), the read loop (handleConnection), the dispatcher           *)
(* (processFrame, handleCloseFrame), the close state machine (Close and    *)
(* its 5-second timer) and the writers (SendPing, SendPong and the four   *)
(* message senders), with the two per-connection mutexes.                 *)
(*                                                                         *)
(* Bytes are the integers 0..255.  A Go int64 that does not fit the model  *)
(* checker's integers is kept as one of the two markers PosHuge / NegHuge, *)
(* which compare like the value they stand for against every size the     *)
(* program compares them with (all below 2^24).                            *)
(***************************************************************************)
EXTENDS Integers, Sequences, FiniteSets, TLC

(***************************************************************************)
(* Program constants.                                                      *)
(***************************************************************************)
StateOpen == 0
StateClosing == 1
StateClosed == 2

\* NewServer: maxFrameSize 16 kb, copied into every Connection by Listen.
MaxFrameSize == 16384
\* Listen: readBuf: make([]byte, 1024); one conn.Read returns at most this.
ReadBufSize == 1024

\* Values of maxMessageSize: the default of NewServer, 32 kb, and a value set
\* with WithMaxMessageSize.  Listen copies it into Connection.maxSize, which
\* no other line of the program reads.
MessageSizeOptions == {2, 32 * 1024}

\* Markers for int64 values beyond the exact range of the model.
PosHuge == 1073741824
NegHuge == -1073741824

(***************************************************************************)
(* Byte helpers.                                                           *)
(***************************************************************************)
Min(a, b) == IF a < b THEN a ELSE b

RECURSIVE Xor8(_, _)
\* a ^ b on bytes.
Xor8(a, b) ==
    IF a = 0 /\ b = 0 THEN 0
    ELSE (((a % 2) + (b % 2)) % 2) + 2 * Xor8(a \div 2, b \div 2)

RECURSIVE Or8(_, _)
\* a | b on bytes.
Or8(a, b) ==
    IF a = 0 /\ b = 0 THEN 0
    ELSE (IF (a % 2) = 1 \/ (b % 2) = 1 THEN 1 ELSE 0) + 2 * Or8(a \div 2, b \div 2)

SubSeqFrom(s, n) == SubSeq(s, n + 1, Len(s))
NoKey == <<0, 0, 0, 0>>

RECURSIVE Flatten(_)
Flatten(ss) == IF ss = <<>> THEN <<>> ELSE Head(ss) \o Flatten(Tail(ss))

\* The two length bytes read low byte first: a variant that shows what rests
\* on the byte order of the 16-bit length.
Uint16LittleEndian(b) == b[2] * 256 + b[1]

\* binary.BigEndian.Uint16
Uint16(b) == b[1] * 256 + b[2]

\* int64(binary.BigEndian.Uint64(b)): exact below 2^24 and in -256..-1,
\* otherwise a marker of its sign.
Int64OfUint64(b) ==
    IF b[1] >= 128
    THEN IF \A i \in 1..7 : b[i] = 255 THEN b[8] - 256 ELSE NegHuge
    ELSE IF \A i \in 1..5 : b[i] = 0
         THEN b[6] * 65536 + b[7] * 256 + b[8]
         ELSE PosHuge

\* int64(h) + v for the value of the 8 length bytes b, with int64 wrap-around:
\* a value within h of 2^63 - 1 wraps to a large negative number.
AddInt64(h, b) ==
    LET v == Int64OfUint64(b) IN
    IF v = NegHuge THEN NegHuge
    ELSE IF v = PosHuge
         THEN IF b[1] = 127 /\ (\A i \in 2..7 : b[i] = 255) /\ b[8] + h > 255
              THEN NegHuge
              ELSE PosHuge
         ELSE h + v

\* binary.BigEndian.PutUint64 for a length below 2^31.
PutUint64(n) ==
    <<0, 0, 0, 0, (n \div 16777216) % 256, (n \div 65536) % 256,
      (n \div 256) % 256, n % 256>>

(***************************************************************************)
(* Frame codec.                                                            *)
(***************************************************************************)
\* The Frame struct.
Frame(fin, opcode, mask, key, payload, plen) ==
    [FIN |-> fin, Opcode |-> opcode, Mask |-> mask, MaskKey |-> key,
     Payload |-> payload, PayloadLength |-> plen]

\* copy(frame[payloadOffset:], f.Payload) into PayloadLength zeroed bytes.
CopiedPayload(f) ==
    LET n == Len(f.Payload) IN
    [i \in 1..f.PayloadLength |-> IF i <= n THEN f.Payload[i] ELSE 0]

\* FrameToBytes with the 7-bit class taken up to 126 bytes: a variant that
\* shows what rests on the boundary between the length classes.
FrameToBytesShortTo126(f) ==
    LET b0  == Or8(IF f.FIN THEN 128 ELSE 0, f.Opcode)
        mb  == IF f.Mask THEN 128 ELSE 0
        key == IF f.Mask THEN f.MaskKey ELSE <<>>
    IN  IF f.PayloadLength <= 126
        THEN <<b0, Or8(mb, f.PayloadLength % 256)>> \o key \o CopiedPayload(f)
        ELSE IF f.PayloadLength <= 65535
        THEN <<b0, Or8(mb, 126), (f.PayloadLength \div 256) % 256,
               f.PayloadLength % 256>> \o key \o CopiedPayload(f)
        ELSE <<b0, Or8(mb, 127)>> \o PutUint64(f.PayloadLength)
                 \o key \o CopiedPayload(f)

\* Frame.FrameToBytes, for 0 <= PayloadLength < 2^31.
FrameToBytes(f) ==
    LET b0  == Or8(IF f.FIN THEN 128 ELSE 0, f.Opcode)
        mb  == IF f.Mask THEN 128 ELSE 0
        key == IF f.Mask THEN f.MaskKey ELSE <<>>
    IN  IF f.PayloadLength < 126
        THEN <<b0, Or8(mb, f.PayloadLength % 256)>> \o key \o CopiedPayload(f)
        ELSE IF f.PayloadLength <= 65535
        THEN <<b0, Or8(mb, 126), (f.PayloadLength \div 256) % 256,
               f.PayloadLength % 256>> \o key \o CopiedPayload(f)
        ELSE <<b0, Or8(mb, 127)>> \o PutUint64(f.PayloadLength)
                 \o key \o CopiedPayload(f)

\* frame.Payload[i] ^= frame.MaskKey[i % 4] (Go indexes from 0).
Unmask(payload, key) ==
    [i \in 1..Len(payload) |-> Xor8(payload[i], key[((i - 1) % 4) + 1])]

Failed(msg) == [ok |-> FALSE, err |-> msg]

\* BytesToFrame: [ok |-> TRUE, frame |-> f] or [ok |-> FALSE, err |-> text];
\* err "panic" is make([]byte, n) with n negative or beyond memory.
BytesToFrame(data) ==
    IF Len(data) < 2 THEN Failed("frame too short") ELSE
    LET fin   == data[1] >= 128
        op    == data[1] % 16
        mask  == data[2] >= 128
        len7  == data[2] % 128
        short == (len7 = 126 /\ Len(data) < 4) \/ (len7 = 127 /\ Len(data) < 10)
    IN  IF short THEN Failed("frame too short for length") ELSE
    LET plen == IF len7 < 126 THEN len7
                ELSE IF len7 = 126 THEN Uint16(SubSeq(data, 3, 4))
                ELSE Int64OfUint64(SubSeq(data, 3, 10))
        off1 == IF len7 < 126 THEN 2 ELSE IF len7 = 126 THEN 4 ELSE 10
    IN  IF mask /\ Len(data) < off1 + 4 THEN Failed("frame too short for mask key") ELSE
    LET key == IF mask THEN SubSeq(data, off1 + 1, off1 + 4) ELSE NoKey
        off == IF mask THEN off1 + 4 ELSE off1
        wraps == len7 = 127 /\ AddInt64(off, SubSeq(data, 3, 10)) = NegHuge
                     /\ plen = PosHuge
    IN  IF ~wraps /\ Len(data) < off + plen THEN Failed("frame too short for payload")
        ELSE IF plen < 0 \/ plen = PosHuge THEN Failed("panic")
        ELSE LET raw == SubSeq(data, off + 1, off + plen)
             IN  [ok |-> TRUE,
                  frame |-> Frame(fin, op, mask, key,
                                  IF mask THEN Unmask(raw, key) ELSE raw, plen)]

\* NewFrame(opcode, data, isFin, masked, maskKey).
NewFrame(opcode, data, isFin, masked, maskKey) ==
    Frame(isFin, opcode, masked, maskKey, data, Len(data))

\* A Close frame built with the mask bit set: a variant that shows what
\* rests on the constructors passing masked = false.
NewCloseFrameMasked(status, reason) ==
    IF 2 + Len(reason) > 125 THEN Failed("control frame (close) too large")
    ELSE [ok |-> TRUE, frame |-> NewFrame(8, status \o reason, TRUE, TRUE, NoKey)]

\* NewCloseFrame(status, reason): len(status) is 2.
NewCloseFrame(status, reason) ==
    IF 2 + Len(reason) > 125 THEN Failed("control frame (close) too large")
    ELSE [ok |-> TRUE, frame |-> NewFrame(8, status \o reason, TRUE, FALSE, NoKey)]

NewPingFrame(body) ==
    IF Len(body) > 125 THEN Failed("control frame (ping) too large")
    ELSE [ok |-> TRUE, frame |-> NewFrame(9, body, TRUE, FALSE, NoKey)]

\* A Pong built with the mask bit set, as a client would: a variant that
\* shows what rests on the server's frames being unmasked.
NewPongFrameMasked(body) ==
    IF Len(body) > 125 THEN Failed("control frame (pong) too large")
    ELSE [ok |-> TRUE, frame |-> NewFrame(10, body, TRUE, TRUE, NoKey)]

NewPongFrame(body) ==
    IF Len(body) > 125 THEN Failed("control frame (pong) too large")
    ELSE [ok |-> TRUE, frame |-> NewFrame(10, body, TRUE, FALSE, NoKey)]

\* math.MaxInt, the largest frame size a caller can pass: a marker, like
\* PosHuge, for a Go int beyond the exact range of the model.
MaxInt == PosHuge

\* frameCount := (msgLen + fs - 1) / fs for msgLen > 0 and fs > 0, in Go's
\* int: the sum wraps around and the division truncates toward zero.  With
\* fs = math.MaxInt the sum is MaxInt for msgLen = 1, MinInt or MinInt + 1 for
\* msgLen = 2 or 3 (quotient -1), and MinInt + msgLen - 2 beyond (quotient 0).
frameCount(msgLen, fs) ==
    IF fs = MaxInt
    THEN IF msgLen = 1 THEN 1 ELSE IF msgLen <= 3 THEN -1 ELSE 0
    ELSE (msgLen + fs - 1) \div fs

\* The calls in which msgToFrames panics: panic("frame size must be
\* positive"), and make([]Frame, 0, frameCount) with a negative capacity.
msgToFramesPanics(msg, fs) ==
    \/ fs <= 0
    \/ Len(msg) > 0 /\ frameCount(Len(msg), fs) < 0

\* msgToFrames(msg, fs) where it returns; opcode is 1 for a string, 2 for
\* bytes.
msgToFrames(opcode, msg, fs) ==
    IF Len(msg) = 0
    THEN <<Frame(TRUE, opcode, FALSE, NoKey, <<>>, 0)>>
    ELSE LET n == frameCount(Len(msg), fs) IN
         [k \in 1..n |->
            LET start   == (k - 1) * fs
                end     == Min(start + fs, Len(msg))
                payload == SubSeq(msg, start + 1, end)
            IN  Frame(k = n, IF k > 1 THEN 0 ELSE opcode, FALSE, NoKey,
                      payload, Len(payload))]

\* frameSize without `if masked { headerSize += 4 }`: a variant that shows
\* what rests on the mask key being counted.
frameSizeWithoutKey(data, maxFrameSize) ==
    IF Len(data) < 2 THEN -1 ELSE
    LET len7 == data[2] % 128
    IN  IF (len7 = 126 /\ Len(data) < 4) \/ (len7 = 127 /\ Len(data) < 10) THEN -1 ELSE
    LET headerSize == IF len7 = 126 THEN 4 ELSE IF len7 = 127 THEN 10 ELSE 2
        totalFrameSize ==
            IF len7 = 126 THEN headerSize + Uint16(SubSeq(data, 3, 4))
            ELSE IF len7 = 127 THEN AddInt64(headerSize, SubSeq(data, 3, 10))
            ELSE headerSize + len7
    IN  IF totalFrameSize > maxFrameSize THEN -2 ELSE totalFrameSize

\* frameSize(data, maxFrameSize): -1 incomplete header, -2 too large, else
\* int(totalFrameSize).
frameSize(data, maxFrameSize) ==
    IF Len(data) < 2 THEN -1 ELSE
    LET len7   == data[2] % 128
        masked == data[2] >= 128
    IN  IF (len7 = 126 /\ Len(data) < 4) \/ (len7 = 127 /\ Len(data) < 10) THEN -1 ELSE
    LET h0 == IF len7 = 126 THEN 4 ELSE IF len7 = 127 THEN 10 ELSE 2
        headerSize == IF masked THEN h0 + 4 ELSE h0
        totalFrameSize ==
            IF len7 = 126 THEN headerSize + Uint16(SubSeq(data, 3, 4))
            ELSE IF len7 = 127 THEN AddInt64(headerSize, SubSeq(data, 3, 10))
            ELSE headerSize + len7
    IN  IF totalFrameSize > maxFrameSize THEN -2 ELSE totalFrameSize

(***************************************************************************)
(* The peer.  A sample is a frame as the peer means it (payload in the     *)
(* clear) and the length class it encodes the length with: 7, 16 or 64     *)
(* bits.  PeerBytes is the peer's encoder (RFC 6455 section 5.2): it masks *)
(* the payload with the key when the mask bit is set.                      *)
(***************************************************************************)
PeerKey == <<55, 250, 33, 61>>

PeerLength(n, cls) ==
    IF cls = 7 THEN <<>>
    ELSE IF cls = 16 THEN <<(n \div 256) % 256, n % 256>>
    ELSE PutUint64(n)

PeerBytes(s) ==
    LET f   == s.frame
        n   == Len(f.Payload)
        b0  == (IF f.FIN THEN 128 ELSE 0) + f.Opcode
        l7  == IF s.cls = 7 THEN n ELSE IF s.cls = 16 THEN 126 ELSE 127
        b1  == (IF f.Mask THEN 128 ELSE 0) + l7
    IN  <<b0, b1>> \o PeerLength(n, s.cls)
            \o (IF f.Mask THEN f.MaskKey \o Unmask(f.Payload, f.MaskKey)
                ELSE f.Payload)

Sample(fin, opcode, mask, payload, cls) ==
    [frame |-> Frame(fin, opcode, mask, IF mask THEN PeerKey ELSE NoKey,
                     payload, Len(payload)),
     cls |-> cls]

\* The frames the read loop is fed in the reader specification.
ReaderSamples ==
    { Sample(TRUE,  1, TRUE,  <<72, 105>>, 7),       \* Text, FIN, "Hi"
      Sample(FALSE, 1, FALSE, <<>>, 7),              \* Text, empty first fragment
      Sample(FALSE, 2, FALSE, <<1>>, 7),             \* Binary, first fragment
      Sample(FALSE, 0, FALSE, <<2>>, 7),             \* Continuation
      Sample(TRUE,  0, TRUE,  <<3>>, 7),             \* Continuation, FIN
      Sample(TRUE,  9, FALSE, <<72>>, 7),            \* Ping "H"
      Sample(TRUE, 10, FALSE, <<4>>, 16),            \* Pong, 16-bit length
      Sample(TRUE,  8, FALSE, <<3, 232>>, 7),        \* Close 1000
      Sample(TRUE,  3, FALSE, <<>>, 64) }            \* reserved opcode, 64-bit length

\* The frames the read loop is fed while callers run beside it.
CoreSamples ==
    { Sample(TRUE,  9, TRUE,  <<72>>, 7),            \* Ping "H"
      Sample(TRUE,  8, FALSE, <<3, 232>>, 7),        \* Close 1000
      Sample(TRUE,  8, FALSE, <<>>, 7),              \* Close without a status
      Sample(TRUE,  0, FALSE, <<>>, 7) }             \* stray Continuation

\* Bounds: frames per inbound stream.
MaxFrames == 3
MaxInbound == 1

SeqsUpTo(S, n) == UNION { [1..k -> S] : k \in 0..n }

StreamOf(ss) == Flatten([i \in 1..Len(ss) |-> PeerBytes(ss[i])])
FramesOf(ss) == [i \in 1..Len(ss) |-> ss[i].frame]

\* Streams with frames of reserved opcodes, alone and inside a fragmented
\* message, and the frames that make the read loop answer.
OpcodeStreams ==
    { <<>>,
      <<Sample(TRUE, 9, TRUE, <<72>>, 7)>>,                    \* Ping "H"
      <<Sample(TRUE, 8, TRUE, <<3, 232>>, 7)>>,                \* Close 1000
      <<Sample(TRUE, 3, TRUE, <<72>>, 7)>>,                    \* opcode 3
      <<Sample(TRUE, 15, TRUE, <<>>, 7)>>,                     \* opcode 15
      <<Sample(FALSE, 2, TRUE, <<1>>, 7),                      \* Binary, first fragment,
        Sample(TRUE, 11, TRUE, <<2>>, 7)>> }                   \* then opcode 11

\* Streams in which a Close frame comes before or after a message, and the
\* frames that make the read loop answer or close by itself.
EndingStreams ==
    { <<>>,
      <<Sample(TRUE, 9, TRUE, <<72>>, 7)>>,                    \* Ping "H"
      <<Sample(TRUE, 0, TRUE, <<>>, 7)>>,                      \* stray Continuation
      <<Sample(TRUE, 1, TRUE, <<72>>, 7),                      \* Text "H",
        Sample(TRUE, 8, TRUE, <<3, 232>>, 7)>>,                \* then Close 1000
      <<Sample(TRUE, 8, TRUE, <<3, 232>>, 7),                  \* Close 1000,
        Sample(TRUE, 1, TRUE, <<72>>, 7)>> }                   \* then Text "H"

\* Headers of Binary frames that declare a length, as the peer writes them:
\* first byte 0x82, then the length class and the length.
RawHeaders ==
    { <<130, 126, 0, 200>>,                           \* 16 bits: 200
      <<130, 126, 63, 253>>,                          \* 16 bits: 16381, total 16385
      <<130, 254, 255, 255>>,                         \* 16 bits: 65535, masked
      <<130, 127, 0, 0, 0, 0, 0, 1, 0, 0>>,           \* 64 bits: 65536
      <<130, 127, 0, 0, 0, 1, 0, 0, 0, 0>>,           \* 64 bits: 2^32
      <<130, 127, 127, 255, 255, 255, 255, 255, 255, 255>>,   \* 64 bits: 2^63 - 1
      <<130, 127, 128, 0, 0, 0, 0, 0, 0, 0>>,         \* 64 bits: 2^63
      <<130, 127, 255, 255, 255, 255, 255, 255, 255, 245>> }  \* 64 bits: 2^64 - 11

\* The first bytes that follow a header: a mask key or payload.
Filler == <<9, 8, 7, 6, 5, 4>>

\* A masked Text frame "Hi" with FIN and one of RSV1, RSV2, RSV3 set in its
\* first byte.
RsvFrames ==
    { <<129 + rsv>> \o Tail(PeerBytes(Sample(TRUE, 1, TRUE, <<72, 105>>, 7))) :
        rsv \in {64, 32, 16} }

\* Masked control frames without FIN, and with a body of 126 bytes.
LongBody == [i \in 1..126 |-> 65]
ControlFrames ==
    { PeerBytes(Sample(FALSE, op, TRUE, <<3, 232>>, 7)) : op \in {8, 9, 10} }
        \cup { PeerBytes(Sample(TRUE, op, TRUE, LongBody, 16)) : op \in {8, 9, 10} }

\* The byte streams of the raw specification: a header and the bytes after
\* it, alone or behind a Ping, the frames of RsvFrames and ControlFrames,
\* and the single frames of CoreSamples.
RawStreams ==
    { h \o Filler : h \in RawHeaders }
        \cup { PeerBytes(Sample(TRUE, 9, TRUE, <<72>>, 7)) \o h : h \in RawHeaders }
        \cup RsvFrames
        \cup ControlFrames
        \cup { StreamOf(ss) : ss \in SeqsUpTo(CoreSamples, 1) }

(***************************************************************************)
(* Callers of the public API: each is one goroutine making one call.       *)
(***************************************************************************)
Callers == {"u1", "u2"}
Threads == {"rd"} \cup Callers
None == "none"

CloseStatuses == {1000}
CloseReasons == {<<>>}
PingBodies == {<<7>>}
\* A Close reason and a Ping or Pong body one byte over the limit of a control
\* frame: 2 + 124 and 126 bytes.
LongReason == SubSeq(LongBody, 1, 124)
\* The arguments an application passes to Close, SendPing and SendPong: one
\* that keeps to the limit, and one that does not always.
OrdinaryApp == [reasons |-> CloseReasons, bodies |-> PingBodies]
CarelessApp == [reasons |-> CloseReasons \cup {LongReason},
                bodies |-> PingBodies \cup {LongBody}]
Messages == {<<5, 6>>}
FrameSizes == {1}
\* Frame sizes msgToFrames does not return for.
BadFrameSizes == {0, -1, MaxInt}

ReasonContinuation == <<85, 110, 101, 120, 112, 101, 99, 116, 101, 100, 32, 99, 111, 110, 116, 105, 110, 117, 97, 116, 105, 111, 110, 32, 102, 114, 97, 109, 101>>
ReasonText == <<85, 110, 101, 120, 112, 101, 99, 116, 101, 100, 32, 116, 101, 120, 116, 32, 102, 114, 97, 109, 101>>
ReasonBinary == <<85, 110, 101, 120, 112, 101, 99, 116, 101, 100, 32, 98, 105, 110, 97, 114, 121, 32, 102, 114, 97, 109, 101>>
ReasonOpcode == <<85, 110, 107, 110, 111, 119, 110, 32, 111, 112, 99, 111, 100, 101>>
ReasonTooLarge == <<70, 114, 97, 109, 101, 32, 116, 111, 111, 32, 108, 97, 114, 103, 101>>
ReasonProtocol == <<80, 114, 111, 116, 111, 99, 111, 108, 32, 101, 114, 114, 111, 114>>

(***************************************************************************)
(* State.                                                                  *)
(***************************************************************************)
VARIABLES
    inbound,      \* bytes the peer sent that conn.Read has not returned yet
    sent,         \* the samples the peer sent (frame and length class), in order
    netUp,        \* the TCP connection is up (FALSE: reads and writes fail)
    connClosed,   \* c.conn.Close() has been called
    connections,  \* s.connections: the set of registered connections
    closeState,   \* c.closeState
    closeReason,  \* c.closeReason
    closeMx,      \* holder of c.closeMx, or None
    writeMx,      \* holder of c.writeMx, or None
    timer,        \* the goroutine Close starts: "none", "armed", "done"
    frameBuffer,  \* c.frameBuffer
    msg,          \* handleConnection's msg
    fr,           \* the frame being dispatched (a one-element sequence)
    currentState, \* handleCloseFrame's currentState (-1: not set)
    yielded,      \* the frames BytesToFrame returned to the read loop, in order
    pc,           \* where each thread is
    arg,          \* the arguments of the call each thread is in
    after,        \* where each thread continues when the call returns
    ret,          \* what the last call of each thread returned
    wire,         \* the conn.Write calls, in order
    events,       \* the callback invocations, in order
    call,         \* the function applied last, with its arguments
    result,       \* what it returned
    app           \* the arguments the callers choose from

vars == <<inbound, sent, netUp, connClosed, connections, closeState, closeReason,
          closeMx, writeMx, timer, frameBuffer, msg, fr, currentState, yielded,
          pc, arg, after, ret, wire, events, call, result, app>>

\* What no step of a connection changes.
givenVars == <<sent, call, result, app>>
connVars == <<connClosed, connections>>
closeVars == <<closeState, closeReason, timer>>
readerVars == <<inbound, frameBuffer, msg, fr, currentState, yielded>>
callVars == <<arg, after, ret>>

NoArg == [status |-> 0, data |-> <<>>, todo |-> <<>>, fs |-> 0]
NoCall == [fn |-> "none"]

\* The Connection literal of Listen and the start of its read loop, with the
\* application that uses the connection.
InitConnectionOf(a) ==
    /\ app = a
    /\ netUp = TRUE
    /\ connClosed = FALSE
    /\ connections = {"c"}
    /\ closeState = StateOpen
    /\ closeReason = <<>>
    /\ closeMx = None
    /\ writeMx = None
    /\ timer = "none"
    /\ frameBuffer = <<>>
    /\ msg = <<>>
    /\ fr = <<>>
    /\ currentState = -1
    /\ yielded = <<>>
    /\ pc = [t \in Threads |-> IF t = "rd" THEN "read" ELSE "idle"]
    /\ arg = [t \in Threads |-> NoArg]
    /\ after = [t \in Threads |-> "done"]
    /\ ret = [t \in Threads |-> None]
    /\ wire = <<>>
    /\ events = <<>>
    /\ call = NoCall
    /\ result = <<>>

InitConnection == InitConnectionOf(OrdinaryApp)

\* A peer that sends one of the streams of frames.
InitWith(streams) ==
    /\ \E ss \in streams :
          /\ sent = ss
          /\ inbound = StreamOf(ss)
    /\ InitConnection

\* A peer that sends one of the byte streams, well-formed or not.
InitBytes(streams) ==
    /\ sent = <<>>
    /\ inbound \in streams
    /\ InitConnection

\* Listen: the Connection after the handshake, registered, its read loop started.
Init == InitWith(SeqsUpTo(CoreSamples, MaxInbound))
InitReader == InitWith(SeqsUpTo(ReaderSamples, MaxFrames))
InitRaw == InitBytes(RawStreams)
InitOpcode == InitWith(OpcodeStreams)
InitEnding == InitWith(EndingStreams)

\* A careless application on a connection whose peer sends nothing, a Ping
\* or a Close.
InitCareless ==
    /\ \E ss \in {<<>>, <<Sample(TRUE, 9, TRUE, <<72>>, 7)>>,
                   <<Sample(TRUE, 8, TRUE, <<3, 232>>, 7)>>} :
          /\ sent = ss
          /\ inbound = StreamOf(ss)
    /\ InitConnectionOf(CarelessApp)

\* Listen has accepted the endpoint and read the client's handshake: the
\* response is not sent yet, there is no Connection, no read loop, and the
\* application has nothing to call.
InitListen ==
    /\ \E ss \in SeqsUpTo(CoreSamples, MaxInbound) :
          /\ sent = ss
          /\ inbound = StreamOf(ss)
    /\ app = OrdinaryApp
    /\ netUp = TRUE
    /\ connClosed = FALSE
    /\ connections = {}
    /\ closeState = StateOpen
    /\ closeReason = <<>>
    /\ closeMx = None
    /\ writeMx = None
    /\ timer = "none"
    /\ frameBuffer = <<>>
    /\ msg = <<>>
    /\ fr = <<>>
    /\ currentState = -1
    /\ yielded = <<>>
    /\ pc = [t \in Threads |-> IF t = "rd" THEN "listen" ELSE "waiting"]
    /\ arg = [t \in Threads |-> NoArg]
    /\ after = [t \in Threads |-> "done"]
    /\ ret = [t \in Threads |-> None]
    /\ wire = <<>>
    /\ events = <<>>
    /\ call = NoCall
    /\ result = <<>>

\* Listen is in its accept loop: no client has connected yet.
InitAccept ==
    /\ \E ss \in SeqsUpTo(CoreSamples, MaxInbound) :
          /\ sent = ss
          /\ inbound = StreamOf(ss)
    /\ app = OrdinaryApp
    /\ netUp = TRUE
    /\ connClosed = FALSE
    /\ connections = {}
    /\ closeState = StateOpen
    /\ closeReason = <<>>
    /\ closeMx = None
    /\ writeMx = None
    /\ timer = "none"
    /\ frameBuffer = <<>>
    /\ msg = <<>>
    /\ fr = <<>>
    /\ currentState = -1
    /\ yielded = <<>>
    /\ pc = [t \in Threads |-> IF t = "rd" THEN "accept" ELSE "waiting"]
    /\ arg = [t \in Threads |-> NoArg]
    /\ after = [t \in Threads |-> "done"]
    /\ ret = [t \in Threads |-> None]
    /\ wire = <<>>
    /\ events = <<>>
    /\ call = NoCall
    /\ result = <<>>

(***************************************************************************)
(* Helpers of the actions.                                                 *)
(***************************************************************************)
HeldBy(t) == {m \in {"closeMx", "writeMx"} :
                 (m = "closeMx" /\ closeMx = t) \/ (m = "writeMx" /\ writeMx = t)}

\* conn.Write succeeds while the connection is up and not closed locally.
WriteOk == netUp /\ ~connClosed

\* c.conn.Write(bytes) by thread t inside function fn: the call is recorded
\* with its outcome, the locks t holds and, for the read loop, the number of
\* the frame being dispatched.
ConnWrite(t, fn, bytes) ==
    wire' = Append(wire, [by |-> t, fn |-> fn, bytes |-> bytes, ok |-> WriteOk,
                          held |-> HeldBy(t),
                          at |-> IF t = "rd" THEN Len(yielded) ELSE 0])

\* A callback invoked on thread t, recorded with the locks t holds and the
\* number of the frame being dispatched.
Invoke(log, t, cb, data) ==
    Append(log, [cb |-> cb, data |-> data, held |-> HeldBy(t), at |-> Len(yielded)])

Goto(t, where) == pc' = [pc EXCEPT ![t] = where]

\* The status written low byte first: a variant that shows what rests on the
\* status of a Close frame being the one Close was called with.
StatusBytesLowFirst(status) == <<status % 256, (status \div 256) % 256>>

\* uint16 status to [2]byte{byte(status >> 8), byte(status & 0xFF)}.
StatusBytes(status) == <<(status \div 256) % 256, status % 256>>

\* Callers are interchangeable: u1 names the one that calls first.
Idle(t) == pc[t] = "idle" /\ (t = "u2" => pc["u1"] # "idle")

\* A call of Close(status, reason) by thread t, continuing at `next` on return.
CallClose(t, status, reason, next) ==
    /\ Goto(t, "Close")
    /\ arg' = [arg EXCEPT ![t] = [NoArg EXCEPT !.status = status, !.data = reason]]
    /\ after' = [after EXCEPT ![t] = next]

\* A return from the call thread t is in.
Return(t, value) ==
    /\ Goto(t, after[t])
    /\ ret' = [ret EXCEPT ![t] = value]
    /\ arg' = [arg EXCEPT ![t] = NoArg]
    /\ UNCHANGED after

(***************************************************************************)
(* Connection.Close and its timer.                                         *)
(***************************************************************************)
\* Close answering nil on a connection that is not Open: a variant that shows
\* what rests on the error being returned.
CloseLockReturnsNil(t) ==
    /\ pc[t] = "Close"
    /\ closeMx = None
    /\ IF closeState # StateOpen
       THEN /\ Return(t, "nil")
            /\ UNCHANGED <<closeState, closeMx>>
       ELSE /\ closeState' = StateClosing
            /\ closeMx' = t
            /\ Goto(t, "Close.writeMx")
            /\ UNCHANGED callVars
    /\ UNCHANGED <<readerVars, connVars, closeReason, timer, writeMx, netUp, givenVars,
                   wire, events>>

\* Close without the check `c.closeState != StateOpen`: a variant that shows
\* what rests on the check.
CloseLockUnchecked(t) ==
    /\ pc[t] = "Close"
    /\ closeMx = None
    /\ closeState' = StateClosing
    /\ closeMx' = t
    /\ Goto(t, "Close.writeMx")
    /\ UNCHANGED <<readerVars, connVars, closeReason, timer, writeMx, netUp, givenVars,
                   wire, events, callVars>>

\* Close moving to Closing before NewCloseFrame: a variant that shows what
\* rests on the frame being built first.
CloseLockStateFirst(t) ==
    /\ pc[t] = "Close"
    /\ closeMx = None
    /\ IF closeState # StateOpen
       THEN /\ Return(t, "already closing or closed")
            /\ UNCHANGED <<closeState, closeMx>>
       ELSE LET cf == NewCloseFrame(StatusBytes(arg[t].status), arg[t].data) IN
            IF ~cf.ok
            THEN /\ closeState' = StateClosing
                 /\ Return(t, cf.err)
                 /\ UNCHANGED closeMx
            ELSE /\ closeState' = StateClosing
                 /\ closeMx' = t
                 /\ Goto(t, "Close.writeMx")
                 /\ UNCHANGED callVars
    /\ UNCHANGED <<readerVars, connVars, closeReason, timer, writeMx, netUp, givenVars,
                   wire, events>>

\* Close refusing only a Closed connection: a variant that shows what rests
\* on the Closing state being refused as well.
CloseLockIfNotClosed(t) ==
    /\ pc[t] = "Close"
    /\ closeMx = None
    /\ IF closeState = StateClosed
       THEN /\ Return(t, "already closing or closed")
            /\ UNCHANGED <<closeState, closeMx>>
       ELSE LET cf == NewCloseFrame(StatusBytes(arg[t].status), arg[t].data) IN
            IF ~cf.ok
            THEN /\ Return(t, cf.err)
                 /\ UNCHANGED <<closeState, closeMx>>
            ELSE /\ closeState' = StateClosing
                 /\ closeMx' = t
                 /\ Goto(t, "Close.writeMx")
                 /\ UNCHANGED callVars
    /\ UNCHANGED <<readerVars, connVars, closeReason, timer, writeMx, netUp, givenVars,
                   wire, events>>

\* Close taking c.writeMx before c.closeMx: a variant that shows what rests
\* on the order of the two locks.
CloseLockWriteFirst(t) ==
    /\ pc[t] = "Close"
    /\ IF writeMx # t
       THEN /\ writeMx = None
            /\ writeMx' = t
            /\ UNCHANGED <<closeState, closeMx, pc, callVars>>
       ELSE /\ closeMx = None
            /\ IF closeState # StateOpen
               THEN /\ Return(t, "already closing or closed")
                    /\ writeMx' = None
                    /\ UNCHANGED <<closeState, closeMx>>
               ELSE LET cf == NewCloseFrame(StatusBytes(arg[t].status), arg[t].data) IN
                    IF ~cf.ok
                    THEN /\ Return(t, cf.err)
                         /\ writeMx' = None
                         /\ UNCHANGED <<closeState, closeMx>>
                    ELSE /\ closeState' = StateClosing
                         /\ closeMx' = t
                         /\ Goto(t, "Close.write")
                         /\ UNCHANGED <<callVars, writeMx>>
    /\ UNCHANGED <<readerVars, connVars, closeReason, timer, netUp, givenVars,
                   wire, events>>

\* c.closeMx.Lock(); the state check; NewCloseFrame; closeState = StateClosing.
CloseLock(t) ==
    /\ pc[t] = "Close"
    /\ closeMx = None
    /\ IF closeState # StateOpen
       THEN /\ Return(t, "already closing or closed")
            /\ UNCHANGED <<closeState, closeMx>>
       ELSE LET cf == NewCloseFrame(StatusBytes(arg[t].status), arg[t].data) IN
            IF ~cf.ok
            THEN /\ Return(t, cf.err)
                 /\ UNCHANGED <<closeState, closeMx>>
            ELSE /\ closeState' = StateClosing
                 /\ closeMx' = t
                 /\ Goto(t, "Close.writeMx")
                 /\ UNCHANGED callVars
    /\ UNCHANGED <<readerVars, connVars, closeReason, timer, writeMx, netUp, givenVars,
                   wire, events>>

\* c.writeMx.Lock() inside Close.
CloseWriteLock(t) ==
    /\ pc[t] = "Close.writeMx"
    /\ writeMx = None
    /\ writeMx' = t
    /\ Goto(t, "Close.write")
    /\ UNCHANGED <<readerVars, connVars, closeVars, closeMx, callVars, netUp, givenVars,
                   wire, events>>

\* Close without `if err != nil {...}` after the write: a variant that shows
\* what rests on the error branch.
CloseWriteIgnoresError(t) ==
    /\ pc[t] = "Close.write"
    /\ LET cf == NewCloseFrame(StatusBytes(arg[t].status), arg[t].data).frame IN
       ConnWrite(t, "Close", FrameToBytes(cf))
    /\ writeMx' = None
    /\ closeMx' = None
    /\ timer' = "armed"
    /\ Return(t, "nil")
    /\ UNCHANGED <<closeState, connClosed>>
    /\ UNCHANGED <<readerVars, connections, closeReason, netUp, givenVars, events>>

\* The write of the Close frame, c.writeMx.Unlock(), the error branch or the
\* start of the timer goroutine, and the deferred c.closeMx.Unlock().
CloseWrite(t) ==
    /\ pc[t] = "Close.write"
    /\ LET cf == NewCloseFrame(StatusBytes(arg[t].status), arg[t].data).frame IN
       ConnWrite(t, "Close", FrameToBytes(cf))
    /\ writeMx' = None
    /\ closeMx' = None
    /\ IF WriteOk
       THEN /\ timer' = "armed"
            /\ Return(t, "nil")
            /\ UNCHANGED <<closeState, connClosed>>
       ELSE /\ closeState' = StateClosed
            /\ connClosed' = TRUE
            /\ Return(t, "write error")
            /\ UNCHANGED timer
    /\ UNCHANGED <<readerVars, connections, closeReason, netUp, givenVars, events>>

\* The timer goroutine without its body: a variant that shows what rests on
\* the timer.
closeTimerIdle ==
    /\ timer = "armed"
    /\ closeMx = None
    /\ timer' = "done"
    /\ UNCHANGED <<readerVars, connVars, closeState, closeReason, closeMx, writeMx,
                   pc, callVars, netUp, givenVars, wire, events>>

\* The goroutine Close starts: after 5 seconds, under closeMx, force
\* Closing to Closed and close the connection.
closeTimer ==
    /\ timer = "armed"
    /\ closeMx = None
    /\ timer' = "done"
    /\ IF closeState = StateClosing
       THEN closeState' = StateClosed /\ connClosed' = TRUE
       ELSE UNCHANGED <<closeState, connClosed>>
    /\ UNCHANGED <<readerVars, connections, closeReason, closeMx, writeMx, pc,
                   callVars, netUp, givenVars, wire, events>>

(***************************************************************************)
(* SendPing and SendPong.                                                  *)
(***************************************************************************)
\* c.writeMx.Lock() of SendPing.
SendPingLock(t) ==
    /\ pc[t] = "SendPing"
    /\ writeMx = None
    /\ writeMx' = t
    /\ Goto(t, "SendPing.write")
    /\ UNCHANGED <<readerVars, connVars, closeVars, closeMx, callVars, netUp, givenVars,
                   wire, events>>

\* NewPingFrame, the write and the deferred unlock.
SendPingWrite(t) ==
    /\ pc[t] = "SendPing.write"
    /\ LET f == NewPingFrame(arg[t].data) IN
       IF ~f.ok
       THEN Return(t, f.err) /\ UNCHANGED wire
       ELSE /\ ConnWrite(t, "SendPing", FrameToBytes(f.frame))
            /\ Return(t, IF WriteOk THEN "nil" ELSE "write error")
    /\ writeMx' = None
    /\ UNCHANGED <<readerVars, connVars, closeVars, closeMx, netUp, givenVars, events>>

\* c.writeMx.Lock() of SendPong.
SendPongLock(t) ==
    /\ pc[t] = "SendPong"
    /\ writeMx = None
    /\ writeMx' = t
    /\ Goto(t, "SendPong.write")
    /\ UNCHANGED <<readerVars, connVars, closeVars, closeMx, callVars, netUp, givenVars,
                   wire, events>>

\* NewPongFrame, the write and the deferred unlock.
SendPongWrite(t) ==
    /\ pc[t] = "SendPong.write"
    /\ LET f == NewPongFrame(arg[t].data) IN
       IF ~f.ok
       THEN Return(t, f.err) /\ UNCHANGED wire
       ELSE /\ ConnWrite(t, "SendPong", FrameToBytes(f.frame))
            /\ Return(t, IF WriteOk THEN "nil" ELSE "write error")
    /\ writeMx' = None
    /\ UNCHANGED <<readerVars, connVars, closeVars, closeMx, netUp, givenVars, events>>

(***************************************************************************)
(* Send*Message*: msgToFrames, then the write lock, then one of the two    *)
(* write strategies.                                                       *)
(***************************************************************************)
Encodings(frames) == [i \in 1..Len(frames) |-> FrameToBytes(frames[i])]

\* A panic of msgToFrames in the caller's thread: before c.writeMx.Lock(),
\* with no value returned.  The thread is not followed beyond the panic; ret
\* keeps the message of the panic.
SendPanics(t, fs) ==
    /\ pc' = [pc EXCEPT ![t] = "panic"]
    /\ ret' = [ret EXCEPT ![t] = IF fs <= 0 THEN "panic: frame size must be positive"
                                 ELSE "panic: makeslice: cap out of range"]
    /\ arg' = [arg EXCEPT ![t] = [NoArg EXCEPT !.fs = fs]]
    /\ UNCHANGED writeMx

\* c.writeMx.Lock() with the frames of msgToFrames to write.
SendLocks(t, fn, fs, frames) ==
    /\ writeMx = None
    /\ writeMx' = t
    /\ arg' = [arg EXCEPT ![t] = [NoArg EXCEPT !.todo = Encodings(frames), !.fs = fs]]
    /\ Goto(t, fn)
    /\ UNCHANGED ret

\* frames := msgToFrames(msg, fs); c.writeMx.Lock() of a buffered send.
SendBuffered(t, fn, opcode) ==
    /\ Idle(t)
    /\ \E m \in Messages, fs \in FrameSizes \cup BadFrameSizes :
          IF msgToFramesPanics(m, fs)
          THEN SendPanics(t, fs)
          ELSE SendLocks(t, fn, fs, msgToFrames(opcode, m, fs))
    /\ UNCHANGED <<readerVars, connVars, closeVars, closeMx, after, netUp, givenVars,
                   wire, events>>

\* A streamed send that does not take c.writeMx: a variant that shows what
\* rests on the lock.
SendStreamedUnlocked(t, fn, opcode) ==
    /\ Idle(t)
    /\ \E m \in Messages, fs \in FrameSizes \cup BadFrameSizes :
          IF msgToFramesPanics(m, fs)
          THEN SendPanics(t, fs)
          ELSE /\ arg' = [arg EXCEPT ![t] =
                     [NoArg EXCEPT !.todo = Encodings(msgToFrames(opcode, m, fs)),
                                   !.fs = fs]]
               /\ Goto(t, fn)
               /\ UNCHANGED <<writeMx, ret>>
    /\ UNCHANGED <<readerVars, connVars, closeVars, closeMx, after,
                   netUp, givenVars, wire, events>>

\* frames := msgToFrames(msg, fs); c.writeMx.Lock() of a streamed send.
SendStreamed(t, fn, opcode) ==
    /\ Idle(t)
    /\ \E m \in Messages, fs \in FrameSizes \cup BadFrameSizes :
          IF msgToFramesPanics(m, fs)
          THEN SendPanics(t, fs)
          ELSE SendLocks(t, fn, fs, msgToFrames(opcode, m, fs))
    /\ UNCHANGED <<readerVars, connVars, closeVars, closeMx, after, netUp, givenVars,
                   wire, events>>

SendBinaryMessageBuffered(t) == SendBuffered(t, "SendBinaryMessageBuffered", 2)
SendBinaryMessageStreamed(t) == SendStreamed(t, "SendBinaryMessageStreamed", 2)
SendTextMessageBuffered(t) == SendBuffered(t, "SendTextMessageBuffered", 1)
SendTextMessageStreamed(t) == SendStreamed(t, "SendTextMessageStreamed", 1)

\* bufferedWrite: every frame into one buffer, one conn.Write; then the
\* deferred unlock of the caller.
bufferedWrite(t) ==
    /\ pc[t] \in {"SendBinaryMessageBuffered", "SendTextMessageBuffered"}
    /\ ConnWrite(t, pc[t], Flatten(arg[t].todo))
    /\ writeMx' = None
    /\ Return(t, IF WriteOk THEN "nil" ELSE "write error")
    /\ UNCHANGED <<readerVars, connVars, closeVars, closeMx, netUp, givenVars, events>>

\* streamedWrite: one conn.Write per frame, stopping at the first error; the
\* deferred unlock of the caller runs when the loop ends.
streamedWrite(t) ==
    /\ pc[t] \in {"SendBinaryMessageStreamed", "SendTextMessageStreamed"}
    /\ IF arg[t].todo = <<>>
       THEN /\ writeMx' = None
            /\ Return(t, "nil")
            /\ UNCHANGED wire
       ELSE /\ ConnWrite(t, pc[t], Head(arg[t].todo))
            /\ IF ~WriteOk \/ Len(arg[t].todo) = 1
               THEN /\ writeMx' = None
                    /\ Return(t, IF WriteOk THEN "nil" ELSE "write error")
               ELSE /\ arg' = [arg EXCEPT ![t].todo = Tail(@)]
                    /\ UNCHANGED <<writeMx, pc, after, ret>>
    /\ UNCHANGED <<readerVars, connVars, closeVars, closeMx, netUp, givenVars, events>>

\* A caller invoking Close, SendPing or SendPong.
UserClose(t) ==
    /\ Idle(t)
    /\ \E status \in CloseStatuses, reason \in app.reasons :
          CallClose(t, status, reason, "done")
    /\ UNCHANGED <<readerVars, connVars, closeVars, closeMx, writeMx, ret, netUp,
                   givenVars, wire, events>>

UserSendPing(t) ==
    /\ Idle(t)
    /\ \E body \in app.bodies :
          arg' = [arg EXCEPT ![t] = [NoArg EXCEPT !.data = body]]
    /\ Goto(t, "SendPing")
    /\ UNCHANGED <<readerVars, connVars, closeVars, closeMx, writeMx, after, ret,
                   netUp, givenVars, wire, events>>

UserSendPong(t) ==
    /\ Idle(t)
    /\ \E body \in app.bodies :
          arg' = [arg EXCEPT ![t] = [NoArg EXCEPT !.data = body]]
    /\ Goto(t, "SendPong")
    /\ UNCHANGED <<readerVars, connVars, closeVars, closeMx, writeMx, after, ret,
                   netUp, givenVars, wire, events>>

(***************************************************************************)
(* The read loop: handleConnection.                                        *)
(***************************************************************************)
\* n, err := c.conn.Read(c.readBuf) returning n bytes; the append to
\* c.frameBuffer.
handleConnectionRead ==
    /\ pc["rd"] = "read"
    /\ ~connClosed
    /\ \E n \in 1..Min(Len(inbound), ReadBufSize) :
          /\ frameBuffer' = frameBuffer \o SubSeq(inbound, 1, n)
          /\ inbound' = SubSeqFrom(inbound, n)
    /\ Goto("rd", "scan")
    /\ UNCHANGED <<msg, fr, currentState, yielded, connVars, closeVars, closeMx,
                   writeMx, callVars, netUp, givenVars, wire, events>>

\* The read-error path without `c.closeState == StateOpen &&`: a variant that
\* shows what rests on the test.
handleConnectionReadErrorAlways ==
    /\ pc["rd"] = "read"
    /\ connClosed \/ ~netUp
    /\ closeMx = None
    /\ events' = Append(events, [cb |-> "onError", data |-> <<>>,
                                 held |-> {"closeMx"}, at |-> Len(yielded)])
    /\ closeState' = StateClosed
    /\ Goto("rd", "remove")
    /\ UNCHANGED <<readerVars, connVars, closeReason, timer, closeMx, writeMx,
                   callVars, netUp, givenVars, wire>>

\* conn.Read returning an error: under closeMx, onError if the state is Open,
\* then the state is forced to Closed.
handleConnectionReadError ==
    /\ pc["rd"] = "read"
    /\ connClosed \/ ~netUp
    /\ closeMx = None
    /\ events' = IF closeState = StateOpen
                 THEN Append(events, [cb |-> "onError", data |-> <<>>,
                                      held |-> {"closeMx"}, at |-> Len(yielded)])
                 ELSE events
    /\ closeState' = StateClosed
    /\ Goto("rd", "remove")
    /\ UNCHANGED <<readerVars, connVars, closeReason, timer, closeMx, writeMx,
                   callVars, netUp, givenVars, wire>>

\* delete(s.connections, c) under connectionsMx, c.conn.Close(), and the
\* return of the read loop.
removeConnection ==
    /\ pc["rd"] = "remove"
    /\ connections' = connections \ {"c"}
    /\ connClosed' = TRUE
    /\ Goto("rd", "done")
    /\ UNCHANGED <<readerVars, closeVars, closeMx, writeMx, callVars, netUp, givenVars,
                   wire, events>>

\* One round of the inner loop up to the dispatch: frameSize, BytesToFrame and
\* the cut of the frame from the buffer.
handleConnectionScan ==
    /\ pc["rd"] = "scan"
    /\ LET completeFrameSize == frameSize(frameBuffer, MaxFrameSize) IN
       IF frameBuffer = <<>> \/ completeFrameSize = -1
       THEN /\ Goto("rd", "read")
            /\ UNCHANGED <<frameBuffer, fr, yielded, callVars, events>>
       ELSE IF completeFrameSize = -2
       THEN /\ CallClose("rd", 1009, ReasonTooLarge, "remove")
            /\ UNCHANGED <<frameBuffer, fr, yielded, ret, events>>
       ELSE IF completeFrameSize < 0
       THEN \* c.frameBuffer[:completeFrameSize] with a negative bound panics
            /\ Goto("rd", "panic")
            /\ UNCHANGED <<frameBuffer, fr, yielded, callVars, events>>
       ELSE IF Len(frameBuffer) < completeFrameSize
       THEN /\ Goto("rd", "read")
            /\ UNCHANGED <<frameBuffer, fr, yielded, callVars, events>>
       ELSE LET got == BytesToFrame(SubSeq(frameBuffer, 1, completeFrameSize)) IN
            IF got.ok
            THEN /\ frameBuffer' = SubSeqFrom(frameBuffer, completeFrameSize)
                 /\ fr' = <<got.frame>>
                 /\ yielded' = Append(yielded, got.frame)
                 /\ Goto("rd", "process")
                 /\ UNCHANGED <<callVars, events>>
            ELSE IF got.err = "panic"
            THEN /\ Goto("rd", "panic")
                 /\ UNCHANGED <<frameBuffer, fr, yielded, callVars, events>>
            ELSE /\ events' = Invoke(events, "rd", "onError", <<>>)
                 /\ CallClose("rd", 1002, ReasonProtocol, "remove")
                 /\ UNCHANGED <<frameBuffer, fr, yielded, ret>>
    /\ UNCHANGED <<inbound, msg, currentState, connVars, closeVars, closeMx, writeMx,
                   netUp, givenVars, wire>>

(***************************************************************************)
(* processFrame.                                                           *)
(***************************************************************************)
Dispatching(opcodes) == pc["rd"] = "process" /\ fr[1].Opcode \in opcodes

\* "is message complete": OnMessage(*msg) and the reset of the buffer after a
\* FIN frame of a data opcode; m is the buffer after the switch.
Complete(f, m) ==
    IF f.FIN /\ f.Opcode \in {0, 1, 2}
    THEN /\ events' = Invoke(events, "rd", "OnMessage", m)
         /\ msg' = <<>>
    ELSE /\ events' = events
         /\ msg' = m

\* case 0x0: a continuation frame is refused when the buffer is empty.
RefusesContinuation(m) == Len(m) = 0

\* case 0x1, case 0x2: a first frame is refused when the buffer is not empty.
RefusesFirst(m) == Len(m) > 0

\* The data cases of the switch and what follows it.
DataFrame(f, refused, reason) ==
    IF refused
    THEN /\ CallClose("rd", 1002, reason, "done")
         /\ UNCHANGED <<msg, events, ret>>
    ELSE /\ Complete(f, msg \o f.Payload)
         /\ Goto("rd", "scan")
         /\ UNCHANGED callVars

\* case 0x9 falling into the appends of the data cases: a variant that shows
\* what rests on the Ping case leaving the buffer alone.
PingFrameAppends(f) ==
    /\ arg' = [arg EXCEPT !["rd"] = [NoArg EXCEPT !.data = f.Payload]]
    /\ after' = [after EXCEPT !["rd"] = "scan"]
    /\ Goto("rd", "SendPong")
    /\ msg' = msg \o f.Payload
    /\ UNCHANGED <<events, ret>>

\* case 0x9: c.SendPong(fr.Payload); the frame is no data frame, so the
\* buffer is left alone and the loop goes on when SendPong returns.
PingFrame(f) ==
    /\ arg' = [arg EXCEPT !["rd"] = [NoArg EXCEPT !.data = f.Payload]]
    /\ after' = [after EXCEPT !["rd"] = "scan"]
    /\ Goto("rd", "SendPong")
    /\ UNCHANGED <<msg, events, ret>>

\* processFrame for every opcode but 0x8 (handleCloseFrame, below).
processFrame ==
    /\ Dispatching((0..15) \ {8})
    /\ LET f == fr[1] IN
       CASE f.Opcode = 0 -> DataFrame(f, RefusesContinuation(msg), ReasonContinuation)
         [] f.Opcode = 1 -> DataFrame(f, RefusesFirst(msg), ReasonText)
         [] f.Opcode = 2 -> DataFrame(f, RefusesFirst(msg), ReasonBinary)
         [] f.Opcode = 9 -> PingFrame(f)
         [] f.Opcode = 10 -> \* case 0xA: nothing
                             Goto("rd", "scan") /\ UNCHANGED <<msg, events, callVars>>
         [] OTHER -> \* default
                     /\ CallClose("rd", 1002, ReasonOpcode, "done")
                     /\ UNCHANGED <<msg, events, ret>>
    /\ UNCHANGED <<inbound, frameBuffer, fr, currentState, yielded, connVars,
                   closeVars, closeMx, writeMx, netUp, givenVars, wire>>

(***************************************************************************)
(* handleCloseFrame (case 0x8).                                            *)
(***************************************************************************)
\* The echo written in the Closing branch too: a variant that shows what
\* rests on the branch.
CloseFrameBranchEchoes(state) ==
    IF state = StateClosed THEN "remove" ELSE "echo.writeMx"

\* The three branches on currentState: the echo and the callbacks (Open),
\* the callbacks alone (Closing), neither (Closed).
CloseFrameBranch(state) ==
    IF state = StateOpen THEN "echo.writeMx"
    ELSE IF state = StateClosing THEN "callbacks"
    ELSE "remove"

\* The critical section on closeMx: currentState, closeReason and the move
\* to Closed.
handleCloseFrame ==
    /\ Dispatching({8})
    /\ closeMx = None
    /\ currentState' = closeState
    /\ closeReason' = fr[1].Payload
    /\ closeState' = StateClosed
    /\ Goto("rd", CloseFrameBranch(closeState))
    /\ UNCHANGED <<inbound, frameBuffer, msg, fr, yielded, connVars, timer, closeMx,
                   writeMx, callVars, netUp, givenVars, wire, events>>

\* The echo without `if len(fr.Payload) >= 2 {...}`: a variant that shows
\* what rests on the status being mirrored.
EchoFrameWithoutStatus(payload) == NewCloseFrame(<<0, 0>>, <<>>).frame

\* The echo: NewCloseFrame with the peer's status when the payload has one.
EchoFrame(payload) ==
    IF Len(payload) >= 2
    THEN NewCloseFrame(SubSeq(payload, 1, 2), <<>>).frame
    ELSE NewCloseFrame(<<0, 0>>, <<>>).frame

\* c.writeMx.Lock() before the echo.
handleCloseFrameWriteLock ==
    /\ pc["rd"] = "echo.writeMx"
    /\ writeMx = None
    /\ writeMx' = "rd"
    /\ Goto("rd", "echo.write")
    /\ UNCHANGED <<readerVars, connVars, closeVars, closeMx, callVars, netUp, givenVars,
                   wire, events>>

\* c.conn.Write(responseFrame.FrameToBytes()); c.writeMx.Unlock().
handleCloseFrameEcho ==
    /\ pc["rd"] = "echo.write"
    /\ ConnWrite("rd", "handleCloseFrame", FrameToBytes(EchoFrame(fr[1].Payload)))
    /\ writeMx' = None
    /\ Goto("rd", "callbacks")
    /\ UNCHANGED <<readerVars, connVars, closeVars, closeMx, callVars, netUp, givenVars,
                   events>>

\* The callbacks of a Close frame with the read loop going on to the next
\* frame: a variant that shows what rests on handleCloseFrame's error return.
handleCloseFrameCallbacksContinue ==
    /\ pc["rd"] = "callbacks"
    /\ events' = Invoke(Invoke(events, "rd", "OnClose", fr[1].Payload),
                        "rd", "onDisconnect", <<>>)
    /\ Goto("rd", "scan")
    /\ UNCHANGED <<readerVars, connVars, closeVars, closeMx, writeMx, callVars,
                   netUp, givenVars, wire>>

\* c.OnClose(fr.Payload), then s.onDisconnect(c).
handleCloseFrameCallbacks ==
    /\ pc["rd"] = "callbacks"
    /\ events' = Invoke(Invoke(events, "rd", "OnClose", fr[1].Payload),
                        "rd", "onDisconnect", <<>>)
    /\ Goto("rd", "remove")
    /\ UNCHANGED <<readerVars, connVars, closeVars, closeMx, writeMx, callVars,
                   netUp, givenVars, wire>>

(***************************************************************************)
(* IsOpen.                                                                 *)
(***************************************************************************)
\* A caller calls c.IsOpen().
UserIsOpen(t) ==
    /\ Idle(t)
    /\ Goto(t, "IsOpen")
    /\ UNCHANGED <<readerVars, connVars, closeVars, closeMx, writeMx, callVars, netUp,
                   givenVars, wire, events>>

\* IsOpen reading c.closeState without c.closeMx: a variant that shows what
\* rests on the lock.
IsOpenUnlocked(t) ==
    /\ pc[t] = "IsOpen"
    /\ Return(t, IF closeState = StateOpen THEN "true" ELSE "false")
    /\ UNCHANGED <<readerVars, connVars, closeVars, closeMx, writeMx, netUp,
                   givenVars, wire, events>>

\* c.closeMx.Lock(), the comparison with StateOpen and the deferred unlock.
IsOpen(t) ==
    /\ pc[t] = "IsOpen"
    /\ closeMx = None
    /\ Return(t, IF closeState = StateOpen THEN "true" ELSE "false")
    /\ UNCHANGED <<readerVars, connVars, closeVars, closeMx, writeMx, netUp,
                   givenVars, wire, events>>

(***************************************************************************)
(* The network.                                                            *)
(***************************************************************************)
\* The peer goes away or the connection breaks: from now on conn.Read and
\* conn.Write fail.
NetFail ==
    /\ netUp
    /\ netUp' = FALSE
    /\ UNCHANGED <<readerVars, connVars, closeVars, closeMx, writeMx, pc, callVars,
                   givenVars, wire, events>>

(***************************************************************************)
(* Listen, from Accept to the client's handshake request.                  *)
(***************************************************************************)
\* Bound: the failures of ln.Accept in one behaviour.
MaxAcceptErrors == 1

\* The names of the header lines of the requests.
HeaderNames == {"Host", "Sec-WebSocket-Key", "sec-websocket-key"}

\* strings.ToLower on the names.
ToLower == [n \in HeaderNames |-> IF n = "Host" THEN "host" ELSE "sec-websocket-key"]

\* What conn.Read gives for the request: an error (the client went away or
\* the handshake timeout passed), or the request line's method and the names
\* of the header lines.
HandshakeRequests ==
    { [ok |-> FALSE, method |-> "", headers |-> <<>>],
      [ok |-> TRUE, method |-> "POST", headers |-> <<"Host", "Sec-WebSocket-Key">>],
      [ok |-> TRUE, method |-> "GET", headers |-> <<"Host">>],
      [ok |-> TRUE, method |-> "GET", headers |-> <<"Host", "Sec-WebSocket-Key">>],
      [ok |-> TRUE, method |-> "GET", headers |-> <<"sec-websocket-key", "Host">>] }

\* getWebSocketKey finds a line whose lower-cased text starts with
\* "sec-websocket-key:".
getWebSocketKey(req) ==
    \E i \in 1..Len(req.headers) : ToLower[req.headers[i]] = "sec-websocket-key"

\* What Listen returns on the request, "" when it goes on to the response.
ListenError(req) ==
    IF ~req.ok THEN "read error"
    ELSE IF req.method # "GET" THEN "client did not send handshake"
    ELSE IF ~getWebSocketKey(req) THEN "Sec-WebSocket-Key header not found"
    ELSE ""

\* ln.Accept failing: onError(nil, err) and continue.
ListenAcceptFails ==
    /\ pc["rd"] = "accept"
    /\ Len(events) < MaxAcceptErrors
    /\ events' = Invoke(events, "rd", "onError", <<>>)
    /\ UNCHANGED <<readerVars, connVars, closeVars, closeMx, writeMx, pc, callVars,
                   netUp, givenVars, wire>>

\* ln.Accept, the read of the request, the test of "GET " and
\* getWebSocketKey: Listen returns the error, or goes on to the response.
ListenAccept ==
    /\ pc["rd"] = "accept"
    /\ \E req \in HandshakeRequests :
          IF ListenError(req) # ""
          THEN /\ Goto("rd", "returned")
               /\ ret' = [ret EXCEPT !["rd"] = ListenError(req)]
          ELSE /\ Goto("rd", "listen")
               /\ UNCHANGED ret
    /\ UNCHANGED <<readerVars, connVars, closeVars, closeMx, writeMx, arg, after,
                   netUp, givenVars, wire, events>>

(***************************************************************************)
(* Listen, from the handshake response to the start of the read loop.      *)
(***************************************************************************)
\* performServerHandshake writes the response; if the write fails the
\* endpoint is closed and onError(nil, err) is invoked. There is no continue
\* after that: in either case the Connection is built, added to
\* s.connections, given to onConnect and its read loop is started.
Listen ==
    /\ pc["rd"] = "listen"
    /\ connClosed' = (connClosed \/ ~WriteOk)
    /\ connections' = connections \cup {"c"}
    /\ events' = Invoke(IF WriteOk THEN events
                        ELSE Invoke(events, "rd", "onError", <<>>),
                        "rd", "onConnect", <<>>)
    /\ pc' = [t \in Threads |-> IF t = "rd" THEN "read" ELSE "idle"]
    /\ UNCHANGED <<readerVars, closeVars, closeMx, writeMx, callVars, netUp,
                   givenVars, wire>>

(***************************************************************************)
(* The critical sections on s.connectionsMx, statement by statement, and   *)
(* GetConnectionCount beside them.                                         *)
(***************************************************************************)
\* The holder of the write lock of s.connectionsMx: the thread between
\* s.connectionsMx.Lock() and s.connectionsMx.Unlock().
connectionsMx == IF pc["rd"] \in {"listen.insert", "remove.delete"} THEN "rd" ELSE None

\* performServerHandshake, its failure branch and the Connection literal.
ListenHandshake ==
    /\ pc["rd"] = "listen"
    /\ connClosed' = (connClosed \/ ~WriteOk)
    /\ events' = IF WriteOk THEN events ELSE Invoke(events, "rd", "onError", <<>>)
    /\ Goto("rd", "listen.lock")
    /\ UNCHANGED <<readerVars, connections, closeVars, closeMx, writeMx, callVars,
                   netUp, givenVars, wire>>

\* s.connectionsMx.Lock() of Listen.
ListenLock ==
    /\ pc["rd"] = "listen.lock"
    /\ Goto("rd", "listen.insert")
    /\ UNCHANGED <<readerVars, connVars, closeVars, closeMx, writeMx, callVars,
                   netUp, givenVars, wire, events>>

\* s.connections[c] = true; s.connectionsMx.Unlock().
ListenInsert ==
    /\ pc["rd"] = "listen.insert"
    /\ connections' = connections \cup {"c"}
    /\ Goto("rd", "listen.onConnect")
    /\ UNCHANGED <<readerVars, connClosed, closeVars, closeMx, writeMx, callVars,
                   netUp, givenVars, wire, events>>

\* s.onConnect(c); go s.handleConnection(c).
ListenStart ==
    /\ pc["rd"] = "listen.onConnect"
    /\ events' = Invoke(events, "rd", "onConnect", <<>>)
    /\ pc' = [t \in Threads |-> IF t = "rd" THEN "read" ELSE "idle"]
    /\ UNCHANGED <<readerVars, connVars, closeVars, closeMx, writeMx, callVars,
                   netUp, givenVars, wire>>

\* s.connectionsMx.Lock() before the delete.
removeLock ==
    /\ pc["rd"] = "remove"
    /\ Goto("rd", "remove.delete")
    /\ UNCHANGED <<readerVars, connVars, closeVars, closeMx, writeMx, callVars,
                   netUp, givenVars, wire, events>>

\* The delete with c.conn.Close() inside the critical section: a variant
\* that shows what rests on the unlock coming first.
removeDeleteAndClose ==
    /\ pc["rd"] = "remove.delete"
    /\ connections' = connections \ {"c"}
    /\ connClosed' = TRUE
    /\ Goto("rd", "remove.close")
    /\ UNCHANGED <<readerVars, closeVars, closeMx, writeMx, callVars,
                   netUp, givenVars, wire, events>>

\* delete(s.connections, c); s.connectionsMx.Unlock().
removeDelete ==
    /\ pc["rd"] = "remove.delete"
    /\ connections' = connections \ {"c"}
    /\ Goto("rd", "remove.close")
    /\ UNCHANGED <<readerVars, connClosed, closeVars, closeMx, writeMx, callVars,
                   netUp, givenVars, wire, events>>

\* c.conn.Close() and the return of the read loop.
removeClose ==
    /\ pc["rd"] = "remove.close"
    /\ connClosed' = TRUE
    /\ Goto("rd", "done")
    /\ UNCHANGED <<readerVars, connections, closeVars, closeMx, writeMx, callVars,
                   netUp, givenVars, wire, events>>

\* GetConnectionCount: RLock, len(s.connections), RUnlock. The read lock is
\* granted while no thread holds the write lock.
GetConnectionCount ==
    /\ connectionsMx = None
    /\ call' = [fn |-> "GetConnectionCount"]
    /\ result' = Cardinality(connections)
    /\ UNCHANGED <<readerVars, connVars, closeVars, closeMx, writeMx, pc, callVars,
                   netUp, sent, app, wire, events>>

(***************************************************************************)
(* Specifications.                                                         *)
(***************************************************************************)
\* The read loop, the calls it makes, the timer and the network.
NextEngine ==
    \/ handleConnectionRead
    \/ handleConnectionReadError
    \/ handleConnectionScan
    \/ processFrame
    \/ handleCloseFrame
    \/ handleCloseFrameWriteLock
    \/ handleCloseFrameEcho
    \/ handleCloseFrameCallbacks
    \/ removeConnection
    \/ CloseLock("rd")
    \/ CloseWriteLock("rd")
    \/ CloseWrite("rd")
    \/ SendPongLock("rd")
    \/ SendPongWrite("rd")
    \/ closeTimer
    \/ NetFail

\* The callers of the public API.
NextCallers ==
    \/ \E t \in Callers : UserClose(t)
    \/ \E t \in Callers : CloseLock(t)
    \/ \E t \in Callers : CloseWriteLock(t)
    \/ \E t \in Callers : CloseWrite(t)
    \/ \E t \in Callers : UserSendPing(t)
    \/ \E t \in Callers : SendPingLock(t)
    \/ \E t \in Callers : SendPingWrite(t)
    \/ \E t \in Callers : UserSendPong(t)
    \/ \E t \in Callers : SendPongLock(t)
    \/ \E t \in Callers : SendPongWrite(t)
    \/ \E t \in Callers : SendBinaryMessageBuffered(t)
    \/ \E t \in Callers : SendBinaryMessageStreamed(t)
    \/ \E t \in Callers : SendTextMessageBuffered(t)
    \/ \E t \in Callers : SendTextMessageStreamed(t)
    \/ \E t \in Callers : bufferedWrite(t)
    \/ \E t \in Callers : streamedWrite(t)

Next == NextEngine \/ NextCallers

Spec == Init /\ [][Next]_vars

\* The read loop alone, fed every stream of up to MaxFrames frames.
SpecReader == InitReader /\ [][NextEngine]_vars

\* The read loop fed frames of reserved opcodes, with the callers beside it.
SpecOpcode == InitOpcode /\ [][Next]_vars

\* The read loop fed a Close frame before or after a message, with the
\* callers beside it.
SpecEnding == InitEnding /\ [][Next]_vars

\* The callers of a careless application beside the read loop.
SpecCareless == InitCareless /\ [][Next]_vars

\* The callers asking IsOpen as well, beside the read loop and the timer.
NextLocks ==
    \/ Next
    \/ \E t \in Callers : UserIsOpen(t)
    \/ \E t \in Callers : IsOpen(t)

SpecLocks == Init /\ [][NextLocks]_vars

\* The server from the handshake response on, with the critical sections on
\* s.connectionsMx taken statement by statement and a monitor that counts.
NextCount ==
    \/ ListenHandshake
    \/ ListenLock
    \/ ListenInsert
    \/ ListenStart
    \/ handleConnectionRead
    \/ handleConnectionReadError
    \/ handleConnectionScan
    \/ processFrame
    \/ handleCloseFrame
    \/ handleCloseFrameWriteLock
    \/ handleCloseFrameEcho
    \/ handleCloseFrameCallbacks
    \/ removeLock
    \/ removeDelete
    \/ removeClose
    \/ CloseLock("rd")
    \/ CloseWriteLock("rd")
    \/ CloseWrite("rd")
    \/ SendPongLock("rd")
    \/ SendPongWrite("rd")
    \/ closeTimer
    \/ NetFail
    \/ NextCallers
    \/ GetConnectionCount

SpecCount == InitListen /\ [][NextCount]_vars

\* A connection from the handshake response on.
NextListen == Listen \/ Next

SpecListen == InitListen /\ [][NextListen]_vars

\* The server from its accept loop on.
NextAccept == ListenAcceptFails \/ ListenAccept \/ NextListen

SpecAccept == InitAccept /\ [][NextAccept]_vars

\* The read loop alone, fed headers that declare lengths of every class.
SpecRaw == InitRaw /\ [][NextEngine]_vars

(***************************************************************************)
(* The codec and msgToFrames applied on their own: one application per     *)
(* behaviour, kept in call and result; a decoding follows an encoding.     *)
(***************************************************************************)
\* Bound: the longest message given to msgToFrames.
MaxMessageLen == 4

PureBytes == {1, 2}
PureMessages == SeqsUpTo(PureBytes, MaxMessageLen)
PureFrameSizes == (1..(MaxMessageLen + 1)) \cup BadFrameSizes

\* Payload lengths around the 7-bit and the 16-bit length class, and those
\* around the 64-bit class, which only unmasked Binary frames are given.
PureLengths == {0, 1, 2, 5, 125, 126, 127}
LongLengths == {65535, 65536}
PurePayload(n) == [i \in 1..n |-> (7 * i + 3) % 256]

\* Frame values with PayloadLength = len(Payload): data frames, control
\* frames with FIN and at most 125 bytes; masked ones carry the key a peer
\* would use.
PureFrames ==
    { Frame(fin, op, mask, IF mask THEN PeerKey ELSE NoKey, PurePayload(n), n) :
        fin \in BOOLEAN, op \in {0, 1, 2}, mask \in BOOLEAN, n \in PureLengths }
    \cup
    { Frame(TRUE, op, mask, IF mask THEN PeerKey ELSE NoKey, PurePayload(n), n) :
        op \in {8, 9, 10}, mask \in BOOLEAN, n \in {k \in PureLengths : k <= 125} }
    \cup
    { Frame(TRUE, 2, FALSE, NoKey, PurePayload(n), n) : n \in LongLengths }

engineVars == <<app, inbound, sent, netUp, connClosed, connections, closeState,
                closeReason, closeMx, writeMx, timer, frameBuffer, msg, fr,
                currentState, yielded, pc, arg, after, ret, wire, events>>

InitPure == InitBytes({<<>>})

\* frames := msgToFrames(msg, fs)
ApplyMsgToFrames ==
    /\ call = NoCall
    /\ \E opcode \in {1, 2}, m \in PureMessages, fs \in PureFrameSizes :
          /\ call' = [fn |-> "msgToFrames", opcode |-> opcode, msg |-> m, fs |-> fs]
          /\ result' = IF msgToFramesPanics(m, fs)
                       THEN Failed("panic")
                       ELSE [ok |-> TRUE, frames |-> msgToFrames(opcode, m, fs)]
    /\ UNCHANGED engineVars

\* data := f.FrameToBytes()
ApplyFrameToBytes ==
    /\ call = NoCall
    /\ \E f \in PureFrames :
          /\ call' = [fn |-> "FrameToBytes", frame |-> f]
          /\ result' = [ok |-> TRUE, bytes |-> FrameToBytes(f)]
    /\ UNCHANGED engineVars

\* BytesToFrame(data) on the bytes FrameToBytes returned for call.frame.
ApplyBytesToFrame ==
    /\ call.fn = "FrameToBytes"
    /\ call' = [fn |-> "BytesToFrame", data |-> result.bytes, frame |-> call.frame]
    /\ result' = BytesToFrame(result.bytes)
    /\ UNCHANGED engineVars

NextPure == ApplyMsgToFrames \/ ApplyFrameToBytes \/ ApplyBytesToFrame

SpecPure == InitPure /\ [][NextPure]_vars

\* The steps of goroutines that are running, not waiting for the peer or for
\* a caller: the timer goroutine once its 5 seconds are over, a Close call
\* past the state check, every holder of the write lock up to its unlock, and
\* the read loop between the callbacks of a Close frame and its return.
Running ==
    \/ closeTimer
    \/ removeConnection
    \/ handleCloseFrameCallbacks
    \/ handleCloseFrameEcho
    \/ \E t \in Threads : CloseWriteLock(t) \/ CloseWrite(t)
    \/ \E t \in Threads : SendPingWrite(t) \/ SendPongWrite(t)
    \/ \E t \in Callers : bufferedWrite(t) \/ streamedWrite(t)

\* Spec with the scheduler's fairness: a goroutine that can run does run.
LiveSpec == Spec /\ WF_vars(Running)

\* The steps of the read loop's goroutine: conn.Read returning data or an
\* error, the scan, the dispatch and everything the dispatch calls.
ReadLoop ==
    \/ handleConnectionRead
    \/ handleConnectionReadError
    \/ handleConnectionScan
    \/ processFrame
    \/ handleCloseFrame
    \/ handleCloseFrameWriteLock
    \/ CloseLock("rd")
    \/ SendPongLock("rd")

\* LiveSpec with a read loop that runs whenever it can.
LiveReadSpec == LiveSpec /\ WF_vars(ReadLoop)

(***************************************************************************)
(* Properties.                                                             *)
(***************************************************************************)
\* The conn.Write calls of thread t, in order.
EntriesOf(t) == SelectSeq(wire, LAMBDA e : e.by = t)

\* The bytes thread t put on the stream, in order.
CallBytes(t) == Flatten([i \in 1..Len(EntriesOf(t)) |-> EntriesOf(t)[i].bytes])

IsPrefix(a, b) == Len(a) <= Len(b) /\ a = SubSeq(b, 1, Len(a))

Last(s) == s[Len(s)]

\* C1: the close state only moves forward in the order Open < Closing <
\* Closed: no step of a Close call, of the dispatch of an inbound Close frame,
\* of the read-error path or of the close timer lowers it.
CloseMonotonic == [][closeState' >= closeState]_vars

\* Closing was entered by a caller's Close, the timer forced it to Closed, a
\* second Close call was turned away and the read loop ended on the read error.
CloseMonotonicWitness ==
    /\ closeState = StateClosed
    /\ timer = "done"
    /\ pc["rd"] = "done"
    /\ \E t \in Callers : ret[t] = "nil" /\ pc[t] = "done"
    /\ \E t \in Callers : ret[t] = "already closing or closed"

\* The bytes a message sender puts on the stream for a message: the encodings
\* of the frames of the message, in order.
MessageBytes(fn) ==
    LET opcode == IF fn \in {"SendTextMessageBuffered", "SendTextMessageStreamed"}
                  THEN 1 ELSE 2
    IN  {Flatten(Encodings(msgToFrames(opcode, m, fs))) :
            m \in Messages, fs \in FrameSizes}

\* C2: the writes of one call are contiguous on the stream: every conn.Write
\* is made with the write lock held, no write of another thread falls between
\* two writes of one caller, and a message send that returned nil has put
\* exactly the encodings of its frames on the stream.
WriteAtomicity ==
    /\ \A k \in 1..Len(wire) : "writeMx" \in wire[k].held
    /\ \A t \in Callers : \A i, k \in 1..Len(wire) :
          (i < k /\ wire[i].by = t /\ wire[k].by = t)
              => \A j \in i..k : wire[j].by = t
    /\ \A t \in Callers :
          (ret[t] = "nil" /\ EntriesOf(t) # <<>>
              /\ EntriesOf(t)[1].fn \notin {"Close", "SendPing", "SendPong"})
              => CallBytes(t) \in MessageBytes(EntriesOf(t)[1].fn)

\* Two callers stream a two-frame message each while the read loop answers a
\* Ping: five writes, all of which succeeded.
WriteAtomicityWitness ==
    /\ Len(wire) = 5
    /\ \A t \in Callers : Len(EntriesOf(t)) = 2 /\ ret[t] = "nil"
    /\ Len(EntriesOf("rd")) = 1
    /\ wire[1].by # "rd" /\ wire[5].by # "rd"

\* The peer's stream has been read to its end and the read loop is at rest:
\* it waits for the next chunk, or it has returned.
AllFed == inbound = <<>> /\ netUp /\ pc["rd"] \in {"read", "done"}

\* C3, as stated: once every chunk of the encodings of f1..fn has been fed,
\* the reader has yielded exactly f1..fn and the buffer is empty.
ReaderYieldsAll == AllFed => (yielded = FramesOf(sent) /\ frameBuffer = <<>>)

\* The status of the Close frames the server wrote.
ClosesWritten ==
    {Uint16(SubSeq(wire[k].bytes, 3, 4)) : k \in {j \in 1..Len(wire) : wire[j].fn = "Close"}}

\* C3, amended: the frames yielded are f1..fk in wire order, each once, none
\* reordered, dropped or duplicated, whatever the chunk boundaries: the bytes
\* read so far are the encodings of the frames yielded followed by the buffer;
\* no well-formed frame is reported malformed or too large; k = n with the
\* buffer empty when the loop waits for more, and when the loop has returned,
\* the last frame yielded is the one whose dispatch ended it (a Close frame, a
\* frame of an unknown opcode, a refused data frame), never a Ping or a Pong.
ReaderYieldsPrefix ==
    /\ IsPrefix(yielded, FramesOf(sent))
    /\ StreamOf(sent) = StreamOf(SubSeq(sent, 1, Len(yielded))) \o frameBuffer \o inbound
    /\ netUp => \A k \in 1..Len(events) : events[k].cb # "onError"
    /\ ClosesWritten \subseteq {1002}
    /\ pc["rd"] \notin {"panic", "remove"} \/ ~netUp \/ currentState # -1
    /\ (AllFed /\ pc["rd"] = "read") => (yielded = FramesOf(sent) /\ frameBuffer = <<>>)
    /\ (netUp /\ pc["rd"] = "done")
           => (yielded # <<>> /\ Last(yielded).Opcode \notin {9, 10})

\* Two frames have been yielded, one of them masked, and the bytes read so far
\* end inside the third frame.
ReaderYieldsPrefixWitness ==
    /\ Len(sent) = 3
    /\ Len(yielded) = 2
    /\ \E i \in 1..2 : yielded[i].Mask
    /\ pc["rd"] = "read"
    /\ frameBuffer # <<>>
    /\ inbound # <<>>

\* The OnMessage invocations of a callback log, in order.
OnMessages(log) == SelectSeq(log, LAMBDA e : e.cb = "OnMessage")

IsData(f) == f.Opcode \in {0, 1, 2}

\* The frames whose dispatch is over: all those yielded but the one the read
\* loop is dispatching.
Dispatched ==
    IF pc["rd"] \in {"process", "SendPong", "SendPong.write", "Close",
                      "Close.writeMx", "Close.write", "echo.writeMx",
                      "echo.write", "callbacks"}
    THEN Len(yielded) - 1
    ELSE Len(yielded)

\* A sequence of data frames only, each message a Text or Binary frame
\* followed by Continuation frames up to the first FIN.
LegalMessages(P) ==
    \A i \in 1..Len(P) :
        /\ IsData(P[i])
        /\ P[i].Opcode = 0 <=> (i > 1 /\ ~P[i - 1].FIN)

\* The first frame of the message frame i of P belongs to.
FirstFragment(P, i) ==
    CHOOSE j \in 1..i : P[j].Opcode # 0 /\ \A k \in (j + 1)..i : P[k].Opcode = 0

\* The payloads of the fragments of P from the first fragment to frame i.
Fragments(P, i) ==
    LET j == FirstFragment(P, i) IN
    Flatten([k \in 1..(i - j + 1) |-> P[j + k - 1].Payload])

\* C4: for a sequence of legal messages, with fragments of any length
\* including zero, OnMessage is invoked exactly once per message, after its
\* final frame and not before, with the concatenation of the payloads of its
\* fragments; the message is then reset, and the read loop never refuses a
\* fragment of such a sequence.
MessageDelivery ==
    LegalMessages(yielded) =>
        /\ pc["rd"] \notin {"Close", "Close.writeMx", "Close.write"}
        /\ LET ends == {i \in 1..Dispatched : yielded[i].FIN}
               got  == OnMessages(events)
           IN  /\ Len(got) = Cardinality(ends)
               /\ \A k \in 1..Len(got) :
                     /\ got[k].at \in ends
                     /\ got[k].data = Fragments(yielded, got[k].at)
                     /\ k > 1 => got[k - 1].at < got[k].at
        /\ (Dispatched = Len(yielded) /\ yielded # <<>> /\ Last(yielded).FIN)
               => msg = <<>>

\* A message is in progress when frame i of P arrives: a Text or Binary frame
\* without FIN was received and no data frame with FIN since.
InProgress(P, i) ==
    \E j \in 1..(i - 1) :
        /\ P[j].Opcode \in {1, 2}
        /\ ~P[j].FIN
        /\ \A k \in (j + 1)..(i - 1) : ~(IsData(P[k]) /\ P[k].FIN)

IllegalFragment(P, i) ==
    \/ P[i].Opcode = 0 /\ ~InProgress(P, i)
    \/ P[i].Opcode \in {1, 2} /\ InProgress(P, i)

\* C5: a Continuation frame with no message in progress, and a Text or Binary
\* frame with a message in progress, stop the read loop (no frame is yielded
\* after it and the loop does not go back to the buffer), deliver nothing to
\* OnMessage and make the server write a Close frame of status 1002.
IllegalFragmentRejected ==
    \A i \in 1..Len(yielded) :
        IllegalFragment(yielded, i) =>
            /\ i = Len(yielded)
            /\ pc["rd"] \notin {"scan", "read"}
            /\ \A k \in 1..Len(events) :
                  ~(events[k].cb = "OnMessage" /\ events[k].at = i)
            /\ pc["rd"] = "done" =>
                  \E k \in 1..Len(wire) :
                      /\ wire[k].fn = "Close"
                      /\ SubSeq(wire[k].bytes, 1, 4) = <<136, Len(wire[k].bytes) - 2, 3, 234>>

\* The payloads of the data frames of P from the end of the message before
\* frame i to frame i.
DataSince(P, i) ==
    LET before == {j \in 1..(i - 1) : IsData(P[j]) /\ P[j].FIN}
        from   == IF before = {} THEN 1
                  ELSE 1 + CHOOSE j \in before : \A k \in before : k <= j
    IN  Flatten([k \in 1..(i - from + 1) |->
                    IF IsData(P[from + k - 1]) THEN P[from + k - 1].Payload ELSE <<>>])

\* The read loop is dispatching a Ping or a Pong frame.
ControlDispatch ==
    /\ fr # <<>>
    /\ fr[1].Opcode \in {9, 10}
    /\ pc["rd"] \in {"process", "SendPong", "SendPong.write"}

\* Every message delivered is the concatenation of the payloads of the data
\* frames received since the message before it.
DeliveredAreDataOnly ==
    \A k \in 1..Len(events) :
        events[k].cb = "OnMessage" =>
            /\ IsData(yielded[events[k].at])
            /\ yielded[events[k].at].FIN
            /\ events[k].data = DataSince(yielded, events[k].at)

\* C6: the dispatch of a Ping or a Pong frame leaves the message in progress
\* as it is and invokes no OnMessage, and a message delivered is the
\* concatenation of the data fragments only.
ControlLeavesAssembly ==
    /\ []DeliveredAreDataOnly
    /\ [][ControlDispatch =>
            (msg' = msg /\ OnMessages(events') = OnMessages(events))]_vars

\* A Ping was dispatched and answered between the two fragments of a message
\* that was then delivered.
ControlLeavesAssemblyWitness ==
    /\ Len(yielded) = 3
    /\ yielded[1].Opcode = 2 /\ ~yielded[1].FIN /\ yielded[1].Payload # <<>>
    /\ yielded[2].Opcode = 9
    /\ yielded[3].Opcode = 0 /\ yielded[3].FIN
    /\ \E k \in 1..Len(wire) : wire[k].fn = "SendPong" /\ wire[k].at = 2
    /\ \E k \in 1..Len(events) :
          /\ events[k].cb = "OnMessage"
          /\ events[k].at = 3
          /\ events[k].data = yielded[1].Payload \o yielded[3].Payload

\* The writes the read loop made while dispatching frame i.
WritesAt(i) == {k \in 1..Len(wire) : wire[k].by = "rd" /\ wire[k].at = i}

\* C7: every inbound Ping frame (a control frame, so with a body of at most
\* 125 bytes) is answered by exactly one write: a Pong frame with FIN set,
\* opcode 10, the mask bit clear and the body of the Ping, written with the
\* write lock held; and the read loop writes no other Pong.
PingAnswered ==
    /\ \A i \in 1..Len(yielded) :
          (yielded[i].Opcode = 9 /\ Len(yielded[i].Payload) <= 125) =>
              /\ Cardinality(WritesAt(i)) <= 1
              /\ i <= Dispatched => Cardinality(WritesAt(i)) = 1
              /\ \A k \in WritesAt(i) :
                    /\ wire[k].fn = "SendPong"
                    /\ wire[k].bytes = <<138, Len(yielded[i].Payload)>>
                                           \o yielded[i].Payload
                    /\ "writeMx" \in wire[k].held
    /\ \A k \in 1..Len(wire) :
          (wire[k].by = "rd" /\ wire[k].fn = "SendPong")
              => yielded[wire[k].at].Opcode = 9

\* A masked Ping was dispatched while both callers were writing too, and its
\* Pong reached the stream.
PingAnsweredWitness ==
    /\ yielded # <<>>
    /\ yielded[1].Opcode = 9 /\ yielded[1].Mask
    /\ Dispatched >= 1
    /\ \E k \in WritesAt(1) : wire[k].ok /\ wire[k].bytes = <<138, 1, 72>>
    /\ \A t \in Callers : EntriesOf(t) # <<>>

\* The invocations of OnClose and onDisconnect, in order.
CloseCallbacks == SelectSeq(events, LAMBDA e : e.cb \in {"OnClose", "onDisconnect"})

\* The writes of the echo of handleCloseFrame.
Echoes == {k \in 1..Len(wire) : wire[k].fn = "handleCloseFrame"}

\* What follows the dispatch of a Close frame with payload p, in both
\* branches: the read loop has stopped, OnClose(p) and then onDisconnect are
\* invoked once each, the connection is removed from the set and closed.
CloseFrameHandled(p) ==
    /\ closeState = StateClosed
    /\ closeReason = p
    /\ pc["rd"] \in {"echo.writeMx", "echo.write", "callbacks", "remove", "done"}
    /\ Len(CloseCallbacks) = IF pc["rd"] \in {"remove", "done"} THEN 2 ELSE 0
    /\ pc["rd"] \in {"remove", "done"} =>
          /\ CloseCallbacks[1].cb = "OnClose" /\ CloseCallbacks[1].data = p
          /\ CloseCallbacks[2].cb = "onDisconnect"
    /\ pc["rd"] = "done" => (connections = {} /\ connClosed)

\* C8: a Close frame that arrives while the state is Open takes the state to
\* Closed (it never was Closing: no Close call got to write, no timer was
\* started); the server writes one echo, a Close frame with the first two
\* bytes of the peer's payload as its status (status 0 when the payload is
\* shorter), under the write lock, then invokes OnClose with the peer's
\* payload and onDisconnect; the connection is removed from the set, the
\* endpoint is released and the read loop stops.
PeerClosesOpen ==
    currentState = StateOpen =>
        LET p == Last(yielded).Payload IN
        /\ CloseFrameHandled(p)
        /\ timer = "none"
        /\ \A k \in 1..Len(wire) : wire[k].fn # "Close"
        /\ Cardinality(Echoes) =
              IF pc["rd"] \in {"callbacks", "remove", "done"} THEN 1 ELSE 0
        /\ \A k \in Echoes :
              /\ wire[k].bytes = <<136, 2>> \o (IF Len(p) >= 2 THEN SubSeq(p, 1, 2)
                                                 ELSE <<0, 0>>)
              /\ "writeMx" \in wire[k].held

\* The peer's Close 1000 arrived while the state was Open; the echo 88 02 03
\* e8 was written and the read loop returned.
PeerClosesOpenWitness ==
    /\ currentState = StateOpen
    /\ pc["rd"] = "done"
    /\ Last(yielded).Payload = <<3, 232>>
    /\ \E k \in Echoes : wire[k].ok /\ wire[k].bytes = <<136, 2, 3, 232>>
    /\ \E t \in Callers : ret[t] = "already closing or closed"

\* The Close frames the server wrote (first byte 0x88).
CloseFramesWritten == {k \in 1..Len(wire) : wire[k].bytes[1] = 136}

\* C10: a Close frame that arrives while the state is Closing takes the state
\* to Closed; OnClose is invoked with the peer's payload, then onDisconnect;
\* the server writes no Close frame besides the one its Close call wrote; the
\* connection is removed from the set and the endpoint released.
PeerRepliesClosing ==
    currentState = StateClosing =>
        /\ CloseFrameHandled(Last(yielded).Payload)
        /\ Echoes = {}
        /\ Cardinality(CloseFramesWritten) = 1
        /\ \A k \in CloseFramesWritten : wire[k].fn = "Close" /\ wire[k].by \in Callers

\* A caller's Close was answered by the peer's Close before the timer fired,
\* and the read loop returned.
PeerRepliesClosingWitness ==
    /\ currentState = StateClosing
    /\ pc["rd"] = "done"
    /\ timer = "armed"
    /\ Last(yielded).Payload = <<3, 232>>
    /\ \E t \in Callers : ret[t] = "nil" /\ EntriesOf(t)[1].fn = "Close"

\* The writes of Close frames by Close calls.
CloseWrites == {k \in 1..Len(wire) : wire[k].fn = "Close"}

\* The (status, reason) pairs Close is called with: by the callers, and by the
\* read loop on a protocol violation or an oversized frame.
CloseCalls ==
    (CloseStatuses \X CloseReasons)
        \cup ({1002} \X {ReasonContinuation, ReasonText, ReasonBinary, ReasonOpcode,
                         ReasonProtocol})
        \cup {<<1009, ReasonTooLarge>>}

\* Close on an Open connection: the state is Closing from the state check to
\* the write; one Close frame is written, the status in two bytes, high byte
\* first, then the reason, with the write lock held; a Close call that
\* returned nil has started the timer.
CloseWritesOneFrame ==
    /\ \A t \in Threads :
          pc[t] \in {"Close.writeMx", "Close.write"}
              => (closeState = StateClosing /\ closeMx = t /\ CloseWrites = {})
    /\ Cardinality(CloseWrites) <= 1
    /\ \A k \in CloseWrites :
          /\ closeState # StateOpen
          /\ "writeMx" \in wire[k].held
          /\ \E c \in CloseCalls :
                wire[k].bytes = <<136, 2 + Len(c[2]), c[1] \div 256, c[1] % 256>> \o c[2]
          /\ (wire[k].ok /\ pc[wire[k].by] # "Close.write") => timer # "none"

ClosedAndReleased == closeState = StateClosed /\ connClosed

\* C9: Close on an Open connection moves the state to Closing and writes one
\* Close frame (big-endian status, then the reason) under the write lock; from
\* Closing the state always becomes Closed with the endpoint released, also
\* when the peer never replies, the timer forcing it.
UserCloseCompletes ==
    /\ []CloseWritesOneFrame
    /\ (closeState = StateClosing) ~> ClosedAndReleased

\* A caller's Close 1000 was written, the peer sent nothing, the network
\* stayed up, and the timer took the state to Closed and released the endpoint
\* while the read loop was still waiting in Read.
UserCloseCompletesWitness ==
    /\ ClosedAndReleased
    /\ timer = "done"
    /\ sent = <<>>
    /\ netUp
    /\ pc["rd"] = "read"
    /\ \E k \in CloseWrites :
          wire[k].ok /\ wire[k].by \in Callers /\ wire[k].bytes = <<136, 2, 3, 232>>

\* Thread t takes the state check of Close and finds the state not Open.
CloseOnNotOpen(t) == pc[t] = "Close" /\ pc'[t] # "Close" /\ closeState # StateOpen

\* C11: Close on a connection whose state is Closing or Closed returns the
\* error "already closing or closed", writes nothing, starts no timer and
\* leaves the close state as it is.
CloseRefusedWhenNotOpen ==
    [][\A t \in Threads :
          CloseOnNotOpen(t) =>
              /\ ret'[t] = "already closing or closed"
              /\ pc'[t] = after[t]
              /\ wire' = wire
              /\ timer' = timer
              /\ closeState' = closeState
              /\ closeMx' = closeMx /\ writeMx' = writeMx]_vars

\* A caller's Close was turned away while the state was Closing, the timer of
\* the first Close still pending, and only that first Close wrote.
CloseRefusedWhenNotOpenWitness ==
    /\ closeState = StateClosing
    /\ timer = "armed"
    /\ Len(wire) = 1
    /\ \E t \in Callers :
          /\ ret[t] = "already closing or closed"
          /\ pc[t] = "done"
          /\ EntriesOf(t) = <<>>

\* The blocking read of the read loop fails in this step.
ReadFails == pc["rd"] = "read" /\ pc'["rd"] = "remove"

\* The invocations of onError of a callback log.
OnErrors(log) == SelectSeq(log, LAMBDA e : e.cb = "onError")

\* The read loop has returned with the connection removed and closed.
Evicted ==
    /\ pc["rd"] = "done"
    /\ closeState = StateClosed
    /\ connections = {}
    /\ connClosed

\* C12: when the read of the read loop fails, onError is invoked if and only
\* if the state was Open at that moment and the state is forced to Closed;
\* the loop then removes the connection from the set, closes it and returns,
\* and never runs again.
ReadErrorPath ==
    /\ [][ReadFails =>
            /\ Len(OnErrors(events')) =
                  Len(OnErrors(events)) + (IF closeState = StateOpen THEN 1 ELSE 0)
            /\ closeState' = StateClosed
            /\ OnMessages(events') = OnMessages(events)]_vars
    /\ [][pc["rd"] = "done" => pc'["rd"] = "done"]_vars
    /\ (pc["rd"] = "remove") ~> Evicted

\* The network failed while the state was Open: onError was invoked once, the
\* connection is out of the set and closed, the loop has returned.
ReadErrorPathWitness ==
    /\ Evicted
    /\ ~netUp
    /\ currentState = -1
    /\ wire = <<>>
    /\ Len(OnErrors(events)) = 1

\* The header at the front of the buffer is complete.
HeaderComplete(data) ==
    /\ Len(data) >= 2
    /\ data[2] % 128 = 126 => Len(data) >= 4
    /\ data[2] % 128 = 127 => Len(data) >= 10

\* The length of the header the front of the buffer declares, mask key
\* included.
DeclaredHeader(data) ==
    (IF data[2] % 128 = 126 THEN 4 ELSE IF data[2] % 128 = 127 THEN 10 ELSE 2)
        + (IF data[2] >= 128 THEN 4 ELSE 0)

\* The header at the front of the buffer declares a frame longer than max
\* (below 2^24), the 8 length bytes read as an unsigned number.
DeclaredOver(data, max) ==
    /\ HeaderComplete(data)
    /\ LET len7 == data[2] % 128 IN
       IF len7 = 127
       THEN \/ \E i \in 3..7 : data[i] # 0
            \/ DeclaredHeader(data) + data[8] * 65536 + data[9] * 256 + data[10] > max
       ELSE IF len7 = 126
       THEN DeclaredHeader(data) + data[3] * 256 + data[4] > max
       ELSE DeclaredHeader(data) + len7 > max

\* The length of the frame at the front of the buffer, when it is not over max.
DeclaredTotal(data) ==
    LET len7 == data[2] % 128 IN
    DeclaredHeader(data)
        + (IF len7 = 127 THEN data[8] * 65536 + data[9] * 256 + data[10]
           ELSE IF len7 = 126 THEN data[3] * 256 + data[4]
           ELSE len7)

\* The read loop takes a step from the scan of the buffer.
ScanStep == pc["rd"] = "scan" /\ pc'["rd"] # "scan"

\* C13: a header that declares a frame longer than maxFrameSize, in any
\* length class and for any declared length, is reported too large from the
\* header alone: the read loop never waits for more bytes with such a header
\* at the front of the buffer and never fails on it; the scan of such a
\* header neither extracts nor dispatches the frame but calls Close(1009) and
\* then terminates the connection; and Close(1009) on an Open connection
\* writes a Close frame of status 1009.
OversizeRejected ==
    /\ [](DeclaredOver(frameBuffer, MaxFrameSize) => pc["rd"] \notin {"read", "panic"})
    /\ [][(ScanStep /\ DeclaredOver(frameBuffer, MaxFrameSize)) =>
            /\ pc'["rd"] = "Close"
            /\ arg'["rd"].status = 1009
            /\ after'["rd"] = "remove"
            /\ yielded' = yielded
            /\ frameBuffer' = frameBuffer]_vars
    /\ [][(pc["rd"] = "Close.write" /\ arg["rd"].status = 1009
               /\ pc'["rd"] # "Close.write") =>
            /\ Len(wire') = Len(wire) + 1
            /\ SubSeq(Last(wire').bytes, 1, 4) = <<136, 17, 3, 241>>]_vars

\* C14: the message in progress never holds more than maxMessageSize bytes
\* and no longer message is delivered to OnMessage, whatever maxMessageSize
\* the server was given; the frame that would exceed it makes the server
\* call Close(1009) instead.
MessageSizeCapped ==
    \A cap \in MessageSizeOptions :
        /\ Len(msg) <= cap
        /\ \A k \in 1..Len(events) :
              events[k].cb = "OnMessage" => Len(events[k].data) <= cap

\* C15: the accumulation buffer never grows beyond maxFrameSize plus one
\* read: when the read loop goes back to Read with bytes in the buffer, it
\* waits for the rest of a header or for the rest of a frame that fits
\* maxFrameSize.
BoundedReadMemory ==
    /\ Len(frameBuffer) <= MaxFrameSize + ReadBufSize
    /\ (pc["rd"] = "read" /\ frameBuffer # <<>>) =>
          \/ ~HeaderComplete(frameBuffer)
          \/ /\ ~DeclaredOver(frameBuffer, MaxFrameSize)
             /\ Len(frameBuffer) < DeclaredTotal(frameBuffer)

\* The payloads of a sequence of frames, concatenated in order.
Payloads(frames) == Flatten([i \in 1..Len(frames) |-> frames[i].Payload])

\* C16: for every message and every frame size above 0, msgToFrames returns
\* ceil(len/fs) frames (one for the empty message) whose payloads concatenate
\* to the message; every frame but the last carries fs bytes; the last frame,
\* and no other, has FIN; the first frame, and no other, carries the data
\* opcode, the others opcode 0; no frame is masked and every PayloadLength is
\* the length of the payload.
FragmentationTotal ==
    (call.fn = "msgToFrames" /\ call.fs > 0) =>
        /\ result.ok
        /\ LET frames == result.frames
               n      == Len(frames)
           IN  /\ n = IF call.msg = <<>> THEN 1
                      ELSE (Len(call.msg) + call.fs - 1) \div call.fs
               /\ Payloads(frames) = call.msg
               /\ \A i \in 1..(n - 1) : Len(frames[i].Payload) = call.fs
               /\ \A i \in 1..n :
                     /\ frames[i].FIN <=> i = n
                     /\ frames[i].Opcode = IF i = 1 THEN call.opcode ELSE 0
                     /\ ~frames[i].Mask
                     /\ frames[i].PayloadLength = Len(frames[i].Payload)

\* The call of a message sender by caller t.
SendCalled(t) ==
    /\ pc[t] = "idle"
    /\ pc'[t] \in {"SendBinaryMessageBuffered", "SendBinaryMessageStreamed",
                   "SendTextMessageBuffered", "SendTextMessageStreamed",
                   "panic", "done"}

\* C17: a message sender called with a frame size of 0 or less returns the
\* bad-frame-size error to its caller at once, with nothing written, the
\* write lock as it was and the connection's state untouched.
BadFrameSizeReturned ==
    [][\A t \in Callers : (SendCalled(t) /\ arg'[t].fs <= 0) =>
          /\ pc'[t] = after[t]
          /\ ret'[t] = "bad frame size"
          /\ wire' = wire
          /\ writeMx' = writeMx
          /\ closeState' = closeState]_vars

\* The header FrameToBytes writes before the mask key for a payload of n bytes
\* under the given first byte: the 7-bit length, or 126 and 2 bytes, or 127
\* and 8 bytes, big-endian.
HeaderOf(b0, mb, n) ==
    IF n < 126 THEN <<b0, mb + n>>
    ELSE IF n <= 65535 THEN <<b0, mb + 126, n \div 256, n % 256>>
    ELSE <<b0, mb + 127, 0, 0, 0, 0, (n \div 16777216) % 256,
           (n \div 65536) % 256, (n \div 256) % 256, n % 256>>

\* C18: decoding the encoding of an unmasked frame whose PayloadLength is the
\* length of its payload succeeds and returns the frame's FIN, opcode, mask
\* bit, payload and PayloadLength, and the encoding has no byte beyond the
\* header and the payload that the decoder reads.
CodecRoundTrip ==
    (call.fn = "BytesToFrame" /\ ~call.frame.Mask) =>
        /\ result.ok
        /\ result.frame.FIN = call.frame.FIN
        /\ result.frame.Opcode = call.frame.Opcode
        /\ result.frame.Mask = call.frame.Mask
        /\ result.frame.Payload = call.frame.Payload
        /\ result.frame.PayloadLength = call.frame.PayloadLength
        /\ Len(call.data) = Len(HeaderOf(0, 0, call.frame.PayloadLength))
                               + result.frame.PayloadLength

CodecRoundTripWitness ==
    /\ call.fn = "BytesToFrame"
    /\ ~call.frame.Mask
    /\ call.frame.PayloadLength = 126
    /\ call.frame.Opcode = 0
    /\ ~call.frame.FIN
    /\ Len(call.data) = 130
    /\ result.ok
    /\ result.frame.Payload = PurePayload(126)

\* C19: FrameToBytes writes a 2-byte header holding the length for a payload
\* below 126 bytes, a 4-byte header (126, then the length in 2 bytes,
\* big-endian) up to 65535 bytes and a 10-byte header (127, then the length in
\* 8 bytes, big-endian) beyond; the mask bit is the frame's, the key follows
\* the header when the frame is masked, and the encoding is as long as the
\* header, the key and the payload together.
LengthClassSelection ==
    call.fn = "FrameToBytes" =>
        LET f   == call.frame
            n   == f.PayloadLength
            h   == HeaderOf((IF f.FIN THEN 128 ELSE 0) + f.Opcode,
                            IF f.Mask THEN 128 ELSE 0, n)
            key == IF f.Mask THEN 4 ELSE 0
        IN  /\ Len(h) = IF n <= 125 THEN 2 ELSE IF n <= 65535 THEN 4 ELSE 10
            /\ SubSeq(result.bytes, 1, Len(h)) = h
            /\ f.Mask => SubSeq(result.bytes, Len(h) + 1, Len(h) + 4) = f.MaskKey
            /\ Len(result.bytes) = Len(h) + key + n

LengthClassSelectionWitness ==
    /\ call.fn = "FrameToBytes"
    /\ ~call.frame.Mask
    /\ call.frame.PayloadLength = 126
    /\ SubSeq(result.bytes, 1, 4) = <<130, 126, 0, 126>>
    /\ Len(result.bytes) = 130

\* C20: FrameToBytes of a masked frame writes the key after the length and
\* each payload byte XORed with the key byte of its index modulo 4, so that
\* decoding the encoding returns the frame's payload.
MaskedEncoding ==
    /\ (call.fn = "FrameToBytes" /\ call.frame.Mask) =>
          LET f   == call.frame
              off == Len(HeaderOf(0, 0, f.PayloadLength))
          IN  /\ SubSeq(result.bytes, off + 1, off + 4) = f.MaskKey
              /\ SubSeqFrom(result.bytes, off + 4) = Unmask(f.Payload, f.MaskKey)
    /\ (call.fn = "BytesToFrame" /\ call.frame.Mask) =>
          /\ result.ok
          /\ result.frame.Payload = call.frame.Payload

\* A whole frame is at the front of the buffer, as frameSize measures it.
FrontComplete ==
    /\ frameBuffer # <<>>
    /\ frameSize(frameBuffer, MaxFrameSize) >= 0
    /\ Len(frameBuffer) >= frameSize(frameBuffer, MaxFrameSize)

\* The scan ends in the protocol-error path: the frame at the front is not
\* extracted and Close(1002) is called before the connection is removed.
ScanRejects ==
    /\ pc'["rd"] = "Close"
    /\ arg'["rd"].status = 1002
    /\ after'["rd"] = "remove"
    /\ yielded' = yielded
    /\ fr' = fr

\* The RSV1, RSV2 and RSV3 bits of a first byte.
Rsv(b) == (b \div 16) % 8

\* C21: a frame at the front of the buffer with one of RSV1, RSV2, RSV3 set
\* is not extracted for dispatch: the scan ends in Close(1002).
RsvRejected ==
    [][(ScanStep /\ FrontComplete /\ Rsv(frameBuffer[1]) # 0) => ScanRejects]_vars

\* The frame at the front of the buffer is a Close, Ping or Pong without FIN
\* or with a declared length above 125.
BadControlAtFront ==
    /\ FrontComplete
    /\ frameBuffer[1] % 16 \in {8, 9, 10}
    /\ frameBuffer[1] < 128 \/ frameBuffer[2] % 128 > 125

\* C22: a control frame without FIN or with more than 125 payload bytes is
\* not extracted for dispatch (so it is not answered with a Pong, does not
\* enter handleCloseFrame and reaches no callback): the scan ends in
\* Close(1002).
ControlFrameRejected ==
    [][(ScanStep /\ BadControlAtFront) => ScanRejects]_vars

\* The header at the front of the buffer has the 8-byte length with its most
\* significant bit set.
HighBitAtFront ==
    /\ HeaderComplete(frameBuffer)
    /\ frameBuffer[2] % 128 = 127
    /\ frameBuffer[3] >= 128

\* C23: a header whose 8-byte length has the most significant bit set ends
\* the scan in Close(1002); and frameSize of a complete header is never
\* negative but for -2 (too large): in particular it is never -1, which means
\* an incomplete header.
HighBitRejected ==
    /\ [][(ScanStep /\ HighBitAtFront) => ScanRejects]_vars
    /\ [](HeaderComplete(frameBuffer) => frameSize(frameBuffer, MaxFrameSize) >= -2)
    /\ [](HeaderComplete(frameBuffer) => frameSize(frameBuffer, MaxFrameSize) # -1)

\* C24: a frame at the front of the buffer whose mask bit is 0 is not
\* extracted for dispatch.
UnmaskedRejected ==
    [][(ScanStep /\ FrontComplete /\ frameBuffer[2] < 128) =>
          (yielded' = yielded /\ pc'["rd"] # "process")]_vars

RECURSIVE FramesUnmasked(_)
\* The bytes are whole frames, one after the other, each with the mask bit 0
\* and therefore a header without a key.
FramesUnmasked(bytes) ==
    IF bytes = <<>> THEN TRUE
    ELSE LET n == frameSize(bytes, PosHuge - 1) IN
         /\ n > 0
         /\ n <= Len(bytes)
         /\ bytes[2] < 128
         /\ BytesToFrame(SubSeq(bytes, 1, n)).ok
         /\ FramesUnmasked(SubSeqFrom(bytes, n))

\* What the constructors return for the arguments the callers and the read
\* loop give them.
ConstructorsUnmasked ==
    /\ \A body \in PingBodies \cup {<<>>, <<72>>} :
          /\ NewPingFrame(body).ok => ~NewPingFrame(body).frame.Mask
          /\ NewPongFrame(body).ok => ~NewPongFrame(body).frame.Mask
    /\ \A status \in CloseStatuses \cup {1002, 1009}, reason \in CloseReasons :
          NewCloseFrame(StatusBytes(status), reason).ok =>
              ~NewCloseFrame(StatusBytes(status), reason).frame.Mask
    /\ \A opcode \in {1, 2}, m \in Messages, fs \in FrameSizes :
          \A i \in 1..Len(msgToFrames(opcode, m, fs)) :
             ~msgToFrames(opcode, m, fs)[i].Mask
    /\ \A opcode \in {0, 1, 2, 8, 9, 10}, m \in Messages, fin \in BOOLEAN :
          ~NewFrame(opcode, m, fin, FALSE, NoKey).Mask

ReservedOpcodes == (3..7) \cup (11..15)

\* The writes of Close(1002, ...) by the read loop: Close frames that begin
\* with the status 1002.
ProtocolCloseWrites ==
    {k \in 1..Len(wire) :
        /\ wire[k].by = "rd"
        /\ wire[k].fn = "Close"
        /\ SubSeq(wire[k].bytes, 1, 4) = <<136, Len(wire[k].bytes) - 2, 3, 234>>}

\* The dispatch of a frame of a reserved opcode appends nothing to the
\* message, invokes no callback and calls Close(1002) before the read loop
\* returns; the frame is the last one extracted.
ReservedOpcodeStops ==
    /\ [][(Dispatching(ReservedOpcodes) /\ pc'["rd"] # "process") =>
            /\ msg' = msg
            /\ events' = events
            /\ pc'["rd"] = "Close"
            /\ arg'["rd"].status = 1002
            /\ after'["rd"] = "done"]_vars
    /\ [](\A i \in 1..Len(yielded) :
            yielded[i].Opcode \in ReservedOpcodes =>
                /\ i = Len(yielded)
                /\ pc["rd"] \notin {"scan", "read"}
                /\ \A k \in 1..Len(events) : events[k].at # i)

\* The read loop has returned from the dispatch of a frame of a reserved
\* opcode.
ReservedOpcodeDone ==
    /\ pc["rd"] = "done"
    /\ yielded # <<>>
    /\ Last(yielded).Opcode \in ReservedOpcodes

\* C26 as stated: a frame of a reserved opcode is never appended to a message
\* nor given to a callback, stops the read loop, and makes the server write a
\* Close frame of status 1002.
ReservedOpcodeClosed ==
    /\ ReservedOpcodeStops
    /\ [](ReservedOpcodeDone => ProtocolCloseWrites # {})

\* C26: a frame of a reserved opcode is never appended to a message nor given
\* to a callback and stops the read loop; the server writes a Close frame of
\* status 1002 when the connection is Open at that moment, and writes nothing
\* when it is Closing or Closed (Close then returns its error).
ReservedOpcodeClosedWhenOpen ==
    /\ ReservedOpcodeStops
    /\ [](ReservedOpcodeDone =>
            IF ret["rd"] = "already closing or closed"
            THEN EntriesOf("rd") = <<>>
            ELSE ProtocolCloseWrites # {})

ReservedOpcodeClosedWhenOpenWitness ==
    /\ ReservedOpcodeDone
    /\ Len(yielded) = 2
    /\ msg = <<1>>
    /\ events = <<>>
    /\ ProtocolCloseWrites # {}
    /\ ret["rd"] = "nil"

\* Thread t takes the step at `where` of the call it is in.
StepAt(t, where) == pc[t] = where /\ pc'[t] # where

\* What the constructors answer for bodies of 0 to 126 bytes.
ConstructorLimits ==
    \A n \in 0..126 :
        LET body == SubSeq(LongBody, 1, n) IN
        /\ NewPingFrame(body).ok <=> n <= 125
        /\ NewPongFrame(body).ok <=> n <= 125
        /\ NewCloseFrame(<<3, 232>>, body).ok <=> 2 + n <= 125
        /\ n > 125 => NewPingFrame(body).err = "control frame (ping) too large"
        /\ n > 125 => NewPongFrame(body).err = "control frame (pong) too large"
        /\ 2 + n > 125 =>
              NewCloseFrame(<<3, 232>>, body).err = "control frame (close) too large"

\* A call returns the error at once: nothing is written, the caller holds no
\* lock afterwards and the close state and the timer are untouched.
ReturnsError(t, err) ==
    /\ pc'[t] = after[t]
    /\ ret'[t] = err
    /\ wire' = wire
    /\ closeMx' # t
    /\ writeMx' # t
    /\ closeState' = closeState
    /\ timer' = timer

\* C27: NewCloseFrame fails exactly when 2 + len(reason) > 125, NewPingFrame
\* and NewPongFrame exactly when len(body) > 125; Close on an Open connection,
\* SendPing and SendPong return that error at once for such a body, writing
\* nothing and leaving the close state and the timer alone, and go on to
\* their write for every other body.
ControlBodyLimit ==
    /\ ConstructorLimits
    /\ [][\A t \in Threads : (StepAt(t, "Close") /\ closeState = StateOpen) =>
            IF 2 + Len(arg[t].data) > 125
            THEN ReturnsError(t, "control frame (close) too large")
            ELSE closeState' = StateClosing /\ pc'[t] = "Close.writeMx"]_vars
    /\ [][\A t \in Threads : StepAt(t, "SendPing.write") =>
            IF Len(arg[t].data) > 125
            THEN ReturnsError(t, "control frame (ping) too large")
            ELSE Len(wire') = Len(wire) + 1]_vars
    /\ [][\A t \in Threads : StepAt(t, "SendPong.write") =>
            IF Len(arg[t].data) > 125
            THEN ReturnsError(t, "control frame (pong) too large")
            ELSE Len(wire') = Len(wire) + 1]_vars

ControlBodyLimitWitness ==
    /\ ret["u1"] = "control frame (close) too large"
    /\ ret["u2"] = "control frame (pong) too large"
    /\ pc["u1"] = "done"
    /\ pc["u2"] = "done"
    /\ closeState = StateOpen
    /\ timer = "none"
    /\ wire = <<>>
    /\ closeMx = None
    /\ writeMx = None


\* Listen answers a handshake whose response cannot be written.
HandshakeFails == StepAt("rd", "listen") /\ ~WriteOk

\* C28: when sending the handshake response fails the endpoint is closed, no
\* Connection is added to s.connections, onConnect is not invoked and no read
\* loop is started for the endpoint.
HandshakeFailureCreatesNothing ==
    [][HandshakeFails =>
         /\ connClosed'
         /\ connections' = {}
         /\ \A k \in 1..Len(events') : events'[k].cb # "onConnect"
         /\ pc'["rd"] \notin {"read", "scan", "process"}]_vars

\* C29: whenever OnMessage, OnClose, onConnect, onDisconnect or onError is
\* invoked, the invoking thread holds none of the engine's locks.
CallbacksHoldNoLock == \A k \in 1..Len(events) : events[k].held = {}

\* Thread t is where it asks for c.closeMx: at the start of Close and of
\* IsOpen, and for the read loop after conn.Read and at the dispatch of a
\* Close frame.
RequestsCloseMx(t) ==
    \/ pc[t] \in {"Close", "IsOpen"}
    \/ t = "rd" /\ pc[t] \in {"read", "process"}

\* Thread t is where it asks for c.writeMx.
RequestsWriteMx(t) == pc[t] \in {"Close.writeMx", "SendPing", "SendPong", "echo.writeMx"}

\* Thread t asks for a lock that thread u holds.
Waits(t, u) ==
    /\ u # t
    /\ \/ RequestsCloseMx(t) /\ closeMx = u
       \/ RequestsWriteMx(t) /\ writeMx = u

\* C30: a thread that holds both locks took closeMx first, no thread asks for
\* closeMx while it holds writeMx, and no two threads wait for each other's
\* locks.
LockOrder ==
    /\ [](\A t \in Threads : RequestsCloseMx(t) => writeMx # t)
    /\ [][\A t \in Threads : (closeMx # t /\ closeMx' = t) => (writeMx # t /\ writeMx' # t)]_vars
    /\ [][\A t \in Threads : (closeMx' = t /\ writeMx' = t) => closeMx = t]_vars
    /\ [](\A t, u \in Threads : ~(Waits(t, u) /\ Waits(u, t)))

LockOrderWitness ==
    /\ closeMx = "u1"
    /\ writeMx = "u1"
    /\ pc["u1"] = "Close.write"
    /\ pc["u2"] = "IsOpen"
    /\ pc["rd"] = "SendPong"
    /\ Waits("u2", "u1")
    /\ Waits("rd", "u1")

\* A step that reads c.closeState: the state check of Close, IsOpen, the
\* read-error path, the critical section of handleCloseFrame and the body of
\* the timer goroutine.
ReadsCloseState ==
    \/ \E t \in Threads : StepAt(t, "Close") \/ StepAt(t, "IsOpen")
    \/ StepAt("rd", "read") /\ pc'["rd"] = "remove"
    \/ Dispatching({8}) /\ pc'["rd"] # "process"
    \/ timer = "armed" /\ timer' = "done"

\* A step that writes c.closeState or c.closeReason.
WritesCloseState == closeState' # closeState \/ closeReason' # closeReason

\* C31: every read and every write of the close state and of the close
\* reason happens under closeMx: the step takes the free lock for its
\* critical section, or it is a step of the thread that holds the lock.
CloseStateGuarded ==
    /\ [][ReadsCloseState => closeMx = None]_vars
    /\ [][WritesCloseState =>
            \/ closeMx = None
            \/ \E t \in Threads : closeMx = t /\ pc[t] = "Close.write" /\ pc'[t] # pc[t]]_vars

CloseStateGuardedWitness ==
    /\ closeMx = "u1"
    /\ closeState = StateClosing
    /\ pc["u2"] = "IsOpen"
    /\ Dispatching({8})

\* A step of the thread that holds the write lock of s.connectionsMx.
HolderSteps == connectionsMx # None /\ pc'[connectionsMx] # pc[connectionsMx]

\* GetConnectionCount returns.
Counts == call'.fn = "GetConnectionCount" /\ <<call', result'>> # <<call, result>>

\* C32: connectionsMx is never held across I/O or a callback: the holder's
\* step only inserts into or deletes from the set and releases the lock, it
\* is never kept waiting, every change of the set is made by the holder, and
\* GetConnectionCount returns the size of the set whenever no writer is
\* inside, whether the network is up or not.
ConnectionsLockDiscipline ==
    /\ [][HolderSteps =>
            /\ connectionsMx' = None
            /\ connections' # connections
            /\ UNCHANGED <<wire, events, connClosed, inbound, frameBuffer, closeMx, writeMx>>]_vars
    /\ [][connections' # connections => HolderSteps]_vars
    /\ [](connectionsMx # None => ENABLED (ListenInsert \/ removeDelete))
    /\ [][Counts => connectionsMx = None /\ result' = Cardinality(connections)]_vars
    /\ [](connectionsMx = None => ENABLED GetConnectionCount)

ConnectionsLockDisciplineWitness ==
    /\ call = [fn |-> "GetConnectionCount"]
    /\ result = 0
    /\ pc["rd"] = "remove.close"
    /\ connections = {}
    /\ ~connClosed
    /\ ~netUp
    /\ \E k \in 1..Len(events) : events[k].cb = "onConnect"

\* C33: once the close state has left Open the connection is eventually
\* removed from s.connections, on every path.
NoConnectionLeak == (closeState # StateOpen) ~> (connections = {})

\* The server has put a Close frame on the stream: the frame of Close or the
\* echo of handleCloseFrame, written without error.
ServerCloseWritten ==
    \E k \in 1..Len(wire) : wire[k].fn \in {"Close", "handleCloseFrame"} /\ wire[k].ok

MessageSenders == {"SendBinaryMessageBuffered", "SendBinaryMessageStreamed",
                   "SendTextMessageBuffered", "SendTextMessageStreamed"}

\* C34: once the server has written a Close frame no message sender writes
\* a frame. A sender takes c.writeMx as its first statement and the Close
\* frame is written under c.writeMx, so a sender that writes after the Close
\* frame was called after it.
NoDataAfterClose ==
    [][ServerCloseWritten =>
         \A k \in (Len(wire) + 1)..Len(wire') :
            ~(wire'[k].fn \in MessageSenders /\ wire'[k].ok)]_vars

\* The writes that put a Close frame on the stream: those whose first byte
\* carries opcode 8.
CloseFrameEntries == {k \in 1..Len(wire) : wire[k].bytes # <<>> /\ wire[k].bytes[1] % 16 = 8}

\* C35: the server writes at most one Close frame per connection, and only
\* the call that took the state out of Open writes it: Close, which holds
\* closeMx from its state check to its write, or handleCloseFrame after it
\* found the state Open.
AtMostOneCloseFrame ==
    /\ Cardinality(CloseFrameEntries) <= 1
    /\ \A k \in 1..Len(wire) :
          (k \in CloseFrameEntries) <=> (wire[k].fn \in {"Close", "handleCloseFrame"})
    /\ \A k \in CloseFrameEntries :
          /\ closeState # StateOpen
          /\ wire[k].fn = "Close" => "closeMx" \in wire[k].held
          /\ wire[k].fn = "handleCloseFrame" => (wire[k].by = "rd" /\ currentState = StateOpen)

AtMostOneCloseFrameWitness ==
    /\ Cardinality(CloseFrameEntries) = 1
    /\ \E k \in CloseFrameEntries : wire[k].by = "u1" /\ wire[k].ok
    /\ ret["u1"] = "nil"
    /\ ret["u2"] = "already closing or closed"
    /\ pc["rd"] = "done"
    /\ currentState = StateClosing
    /\ timer = "done"

\* The invocations of callback cb, as positions in events.
Invocations(cb) == {k \in 1..Len(events) : events[k].cb = cb}

\* C36: onDisconnect and OnClose are invoked at most once each, onDisconnect
\* and onError are never both invoked, and no OnMessage follows an
\* onDisconnect or an onError.
TerminationCallbacksOnce ==
    /\ Cardinality(Invocations("onDisconnect")) <= 1
    /\ Cardinality(Invocations("OnClose")) <= 1
    /\ Invocations("onDisconnect") = {} \/ Invocations("onError") = {}
    /\ \A j \in Invocations("onDisconnect") \cup Invocations("onError") :
          \A k \in Invocations("OnMessage") : k < j

TerminationCallbacksOnceWitness ==
    /\ Len(events) = 3
    /\ events[1].cb = "OnMessage"
    /\ events[2].cb = "OnClose"
    /\ events[3].cb = "onDisconnect"
    /\ currentState = StateClosing
    /\ ret["u1"] = "nil"
    /\ ret["u2"] = "already closing or closed"
    /\ ~netUp
    /\ Evicted

\* Thread t's Close makes its write and the write fails.
CloseWriteFails(t) == StepAt(t, "Close.write") /\ ~WriteOk

\* Thread t's last call was a Close whose write failed.
CloseFailed(t) ==
    /\ ret[t] = "write error"
    /\ pc[t] = after[t]
    /\ EntriesOf(t) # <<>>
    /\ Last(EntriesOf(t)).fn = "Close"

\* C37: when the write of the Close frame fails, Close returns the write
\* error, the state goes from Closing to Closed in the critical section that
\* took it out of Open, the endpoint is closed and no timer is started.
CloseWriteFailure ==
    /\ [][\A t \in Threads : CloseWriteFails(t) =>
            /\ closeMx = t /\ closeState = StateClosing
            /\ closeState' = StateClosed
            /\ connClosed'
            /\ ret'[t] = "write error" /\ pc'[t] = after[t]
            /\ timer = "none" /\ timer' = "none"
            /\ closeMx' = None /\ writeMx' = None
            /\ Len(wire') = Len(wire) + 1 /\ ~Last(wire').ok]_vars
    /\ [](\A t \in Threads : CloseFailed(t) =>
            closeState = StateClosed /\ connClosed /\ timer = "none")

CloseWriteFailureWitness ==
    /\ CloseFailed("u1")
    /\ Len(wire) = 1
    /\ ~netUp
    /\ timer = "none"
    /\ closeState = StateClosed
    /\ pc["rd"] = "done"
    /\ connections = {}
    /\ events = <<>>

\* C38: a client that fails the opening handshake does not stop the server:
\* after it, Listen is in its accept loop again.
HandshakeFailureKeepsListening ==
    [][StepAt("rd", "accept") => pc'["rd"] \in {"accept", "listen"}]_vars

\* The message OnMessage was given last.
LastDelivered == Last(OnMessages(events)).data

\* The assembly since the last delivery still fits the array of the slice
\* that was delivered: `*msg = (*msg)[:0]` keeps the array and its capacity,
\* which is at least the length delivered, and append re-uses the array of a
\* slice whose capacity suffices.
SharesDeliveredArray == OnMessages(events) # <<>> /\ Len(msg) <= Len(LastDelivered)

\* What a callback that kept the slice it was given reads through it now:
\* the bytes appended since the reset lie over the front of the message.
RetainedMessage ==
    [i \in 1..Len(LastDelivered) |-> IF i <= Len(msg) THEN msg[i] ELSE LastDelivered[i]]

\* C39: the bytes of a delivered message stay as they were delivered while
\* later frames are assembled.
DeliveredMessageKept == SharesDeliveredArray => RetainedMessage = LastDelivered

\* C40: frameSize and BytesToFrame agree on the buffer of the read loop: a
\* result n >= 0 that the buffer covers is at least 2, BytesToFrame decodes
\* the first n bytes and the header it read plus PayloadLength is n; the
\* result is -1 only for a truncated header and -2 only for a declared
\* total above the ceiling.
PrescanAgreesWithDecoder ==
    LET n == frameSize(frameBuffer, MaxFrameSize) IN
    /\ (n >= 0 /\ Len(frameBuffer) >= n) =>
          /\ n >= 2
          /\ LET r == BytesToFrame(SubSeq(frameBuffer, 1, n)) IN
             r.ok /\ DeclaredHeader(frameBuffer) + r.frame.PayloadLength = n
    /\ n = -1 => ~HeaderComplete(frameBuffer)
    /\ n = -2 => DeclaredOver(frameBuffer, MaxFrameSize)

====
